---- MODULE Spec2Model ----
(***************************************************************************)
(* Markdown import/export of the blog editor: the math-aware preprocessor  *)
(* of markdown-parser.ts (preprocessMathInMarkdown), the import pipeline   *)
(* markdownToJsonContent around it, and the export direction               *)
(* jsonContentToMarkdown; concurrent calls of the import; the              *)
(* formula-modal store of the editor; ScheduledPublishWorkflow; and the    *)
(* publish-process cycle and slug generation of the usePostActions hook.   *)
(*                                                                         *)
(* A string is a sequence of characters, each character a one-character    *)
(* TLA+ string; U+0000 is written NUL and the backtick Backtick.           *)
(***************************************************************************)
EXTENDS Integers, Sequences, FiniteSets, TLC

VARIABLES
    doc,            \* the document tree handed to the exporter (NoDoc on a plain import)
    markdown,       \* markdownToJsonContent's argument
    placeholders,   \* preprocessMathInMarkdown: the side table of protected literals
    result,         \* preprocessMathInMarkdown: the text after the two math passes
    preprocessed,   \* markdownToJsonContent: what preprocessMathInMarkdown returned
    html,           \* markdownToJsonContent: what marked returned
    json,           \* markdownToJsonContent: the parsed tree (its nodes in document order)
    exported,       \* the markdown of the parsed tree, exported again
    config,         \* jsonContentToMarkdown's config (its rewriteImageSrc)
    pc,             \* where the conversion stands
    calls,          \* concurrent markdownToJsonContent calls: the locals of each
    openers,        \* formula-modal-store: the openers Map, its entries in insertion order
    activeOpenerKey, \* formula-modal-store: the active key, or NoKey for null
    payload,        \* the payload of the last openFormulaModalForEdit call
    invoked,        \* the openers that call invoked, in order
    propagated,     \* whether that call threw to its caller
    opens,          \* how many openFormulaModalForEdit calls were made
    nextFn,         \* the next opener closure an editor creates
    strayed,        \* whether setActive was ever called with an unregistered key
    now,            \* ScheduledPublishWorkflow: the time, in ticks since the epoch
    publishedAt,    \* the run's event.payload.publishedAt
    stored,         \* the status of the post in the database ("missing" when absent)
    post,           \* the run's local post: what fetchPost returned
    steps,          \* the steps of the run that completed, in order, with their times
    stage,          \* where the run stands
    processState,   \* usePostActions: the processState state
    timers,         \* the timeouts of handleProcessData that are pending
    mutations,      \* how many times processDataMutation.mutate was called
    cycles,         \* how many times processState left IDLE
    handled,        \* how many times handleProcessData was called
    title,          \* post.title
    debouncedTitle, \* useDebounce(post.title, 500)
    prevTitleRef,   \* prevTitleRef.current
    isPending,      \* slugMutation.isPending
    requested,      \* the titles slug requests were issued for, in order
    slug,           \* post.slug: the title whose request set it, or how else it was set
    edits,          \* how many times the title was edited
    isFirstTitleMount, \* isFirstTitleMount.current
    sessionSynced,  \* the sessionSynced state
    kvSnapshot      \* the kvSnapshot state

\* the variables of one conversion
importVars == <<doc, markdown, placeholders, result, preprocessed, html, json, exported,
                config, pc>>

\* the concurrent calls
callVars == <<calls>>

\* the formula-modal store and the last call of it
storeVars == <<openers, activeOpenerKey, payload, invoked, propagated, opens, nextFn,
               strayed>>

\* a run of ScheduledPublishWorkflow and the world around it
workflowVars == <<now, publishedAt, stored, post, steps, stage>>

\* the state of the usePostActions hook
hookVars == <<processState, timers, mutations, cycles, handled, title, debouncedTitle,
              prevTitleRef, isPending, requested, slug, edits, isFirstTitleMount,
              sessionSynced, kvSnapshot>>

\* the variables one conversion leaves alone
otherVars == <<callVars, storeVars, workflowVars, hookVars>>

\* the variables the concurrent calls leave alone
notCallVars == <<importVars, storeVars, workflowVars, hookVars>>

\* the variables the formula-modal store leaves alone
notStoreVars == <<importVars, callVars, workflowVars, hookVars>>

\* the variables a workflow run leaves alone
notWorkflowVars == <<importVars, callVars, storeVars, hookVars>>

\* the variables the hook leaves alone
notHookVars == <<importVars, callVars, storeVars, workflowVars>>

vars == <<importVars, otherVars>>

(***************************************************************************)
(* Characters and character classes of the regular expressions.            *)
(***************************************************************************)
NUL == "NUL"

\* the backtick, which a TLA+ string cannot hold
Backtick == "BACKTICK"

Digit == {"0", "1", "2", "3", "4", "5", "6", "7", "8", "9"}

LowerSeq == <<"a", "b", "c", "d", "e", "f", "g", "h", "i", "j", "k", "l", "m",
              "n", "o", "p", "q", "r", "s", "t", "u", "v", "w", "x", "y", "z">>

UpperSeq == <<"A", "B", "C", "D", "E", "F", "G", "H", "I", "J", "K", "L", "M",
              "N", "O", "P", "Q", "R", "S", "T", "U", "V", "W", "X", "Y", "Z">>

Lower == {LowerSeq[i] : i \in DOMAIN LowerSeq}

Upper == {UpperSeq[i] : i \in DOMAIN UpperSeq}

\* [a-zA-Z]
Letter == Lower \cup Upper

\* \s, and what String.prototype.trim strips
Whitespace == {" ", "\t", "\n", "\r", "\f"}

\* \w
WordChar == Letter \cup Digit \cup {"_"}

\* the complement of this set is /[^\d\s.,+\-*/=^_(){}\\a-zA-Z]/
LatexChar == Digit \cup Whitespace \cup Letter \cup
             {".", ",", "+", "-", "*", "/", "=", "^", "_", "(", ")", "{", "}", "\\"}

\* the /i flag: a letter compared without its case
ToLower(c) ==
    IF c \in Upper
    THEN LowerSeq[CHOOSE i \in DOMAIN UpperSeq : UpperSeq[i] = c]
    ELSE c

(***************************************************************************)
(* String helpers.                                                         *)
(***************************************************************************)
Min(S) == CHOOSE x \in S : \A y \in S : x <= y

Max(S) == CHOOSE x \in S : \A y \in S : y <= x

\* s.startsWith(p, i - 1)
StartsWithAt(s, i, p) ==
    /\ i >= 1
    /\ i + Len(p) - 1 <= Len(s)
    /\ \A k \in 1..Len(p) : s[i + k - 1] = p[k]

\* s.indexOf(p, i - 1) + 1, and 0 when p does not occur from i on
IndexOfFrom(s, p, i) ==
    LET C == {j \in i..(Len(s) - Len(p) + 1) : StartsWithAt(s, j, p)}
    IN  IF C = {} THEN 0 ELSE Min(C)

Contains(s, p) == IndexOfFrom(s, p, 1) # 0

\* the characters i..j of s are all in class K
AllIn(s, i, j, K) == \A k \in i..j : s[k] \in K

\* String.prototype.trim
Trim(s) ==
    LET Solid == {i \in DOMAIN s : s[i] \notin Whitespace}
    IN  IF Solid = {} THEN <<>> ELSE SubSeq(s, Min(Solid), Max(Solid))

RECURSIVE Concat(_)
\* the strings of a sequence of strings, joined
Concat(ss) ==
    IF Len(ss) = 0 THEN <<>>
    ELSE IF Len(ss) = 1 THEN ss[1]
    ELSE LET h == Len(ss) \div 2
         IN  Concat(SubSeq(ss, 1, h)) \o Concat(SubSeq(ss, h + 1, Len(ss)))

\* s.replace(/c/g, to) for a single character c
ReplaceChar(s, c, to) ==
    Concat([i \in DOMAIN s |-> IF s[i] = c THEN to ELSE <<s[i]>>])

RECURSIVE DecimalDigits(_)
\* the decimal digits of a natural number, as a template literal prints it
DecimalDigits(n) ==
    LET d == <<"0", "1", "2", "3", "4", "5", "6", "7", "8", "9">>[(n % 10) + 1]
    IN  IF n < 10 THEN <<d>> ELSE DecimalDigits(n \div 10) \o <<d>>

(***************************************************************************)
(* escapeHtmlAttr                                                          *)
(***************************************************************************)
\* escapeHtmlAttr with the replacement of the double quote left out
EscapeHtmlAttrNoQuote(s) ==
    LET a == ReplaceChar(s, "&", <<"&", "a", "m", "p", ";">>)
        c == ReplaceChar(a, "<", <<"&", "l", "t", ";">>)
    IN  ReplaceChar(c, ">", <<"&", "g", "t", ";">>)

EscapeHtmlAttr(s) ==
    LET a == ReplaceChar(s, "&", <<"&", "a", "m", "p", ";">>)
        b == ReplaceChar(a, "\"", <<"&", "q", "u", "o", "t", ";">>)
        c == ReplaceChar(b, "<", <<"&", "l", "t", ";">>)
    IN  ReplaceChar(c, ">", <<"&", "g", "t", ";">>)

(***************************************************************************)
(* The sentinel of savePlaceholder: \u0000MATH_PLACEHOLDER_${idx}\u0000    *)
(***************************************************************************)
PlaceholderTag == <<"M", "A", "T", "H", "_", "P", "L", "A", "C", "E", "H", "O", "L",
                    "D", "E", "R", "_">>

Sentinel(idx) == <<NUL>> \o PlaceholderTag \o DecimalDigits(idx) \o <<NUL>>

(***************************************************************************)
(* The marker elements the two math passes emit.                           *)
(***************************************************************************)
InlineOpen == <<"<", "s", "p", "a", "n", " ", "d", "a", "t", "a", "-", "t", "y", "p",
                "e", "=", "\"", "i", "n", "l", "i", "n", "e", "-", "m", "a", "t", "h",
                "\"", " ", "d", "a", "t", "a", "-", "l", "a", "t", "e", "x", "=", "\"">>

InlineClose == <<"\"", ">", "<", "/", "s", "p", "a", "n", ">">>

BlockOpen == <<"<", "d", "i", "v", " ", "d", "a", "t", "a", "-", "t", "y", "p", "e",
               "=", "\"", "b", "l", "o", "c", "k", "-", "m", "a", "t", "h", "\"", " ",
               "d", "a", "t", "a", "-", "l", "a", "t", "e", "x", "=", "\"">>

BlockClose == <<"\"", ">", "<", "/", "d", "i", "v", ">">>

InlineMarker(escaped) == InlineOpen \o escaped \o InlineClose

BlockMarker(escaped) == BlockOpen \o escaped \o BlockClose

(***************************************************************************)
(* Protecting code regions.  A match of a pattern at position i is given   *)
(* by the position of its last character, 0 when the pattern does not      *)
(* match at i; String.prototype.replace with the g flag takes the leftmost *)
(* match and goes on behind it.                                            *)
(***************************************************************************)
\* the leftmost position from i on where a match (given by its ends) starts, or 0
Leftmost(Ends, i) ==
    LET Starts == {j \in DOMAIN Ends : j >= i /\ Ends[j] # 0}
    IN  IF Starts = {} THEN 0 ELSE Min(Starts)

Tildes == <<"~", "~", "~">>

\* /~~~[\s\S]*?~~~/ at i: the lazy body ends at the first ~~~ behind the opening one
TildeMatchEnd(s, i) ==
    IF ~StartsWithAt(s, i, Tildes) THEN 0
    ELSE LET j == IndexOfFrom(s, Tildes, i + 3)
         IN  IF j = 0 THEN 0 ELSE j + 2

Ticks(n) == [k \in 1..n |-> Backtick]

\* the length of the run of backticks that starts at i
RunLength(s, i) ==
    LET Others == {j \in i..Len(s) : s[j] # Backtick}
    IN  IF Others = {} THEN Len(s) - i + 1 ELSE Min(Others) - i

\* /(`+)[\s\S]*?\1/ at i: the group is greedy and gives backticks back one at a
\* time; for a group of n backticks the lazy body ends at the first place behind
\* the group where n backticks stand
BacktickMatchEnd(s, i) ==
    LET r == IF i >= 1 /\ i <= Len(s) /\ s[i] = Backtick THEN RunLength(s, i) ELSE 0
        Closed == {n \in 1..r : IndexOfFrom(s, Ticks(n), i + n) # 0}
    IN  IF Closed = {} THEN 0
        ELSE LET n == Max(Closed)
             IN  IndexOfFrom(s, Ticks(n), i + n) + n - 1

RECURSIVE ProtectTildeFences(_, _, _, _)
\* .replace(/~~~[\s\S]*?~~~/g, (m) => savePlaceholder(m)), from position i on,
\* with out the text built so far and ph the side table
ProtectTildeFences(s, i, out, ph) ==
    LET a == Leftmost([j \in DOMAIN s |-> TildeMatchEnd(s, j)], i)
        e == TildeMatchEnd(s, a)
    IN  IF a = 0
        THEN [result |-> out \o SubSeq(s, i, Len(s)), placeholders |-> ph]
        ELSE ProtectTildeFences(s, e + 1, out \o SubSeq(s, i, a - 1) \o Sentinel(Len(ph)),
                 Append(ph, SubSeq(s, a, e)))

RECURSIVE ProtectBacktickSpans(_, _, _, _)
\* .replace(/(`+)[\s\S]*?\1/g, (m) => savePlaceholder(m))
ProtectBacktickSpans(s, i, out, ph) ==
    LET a == Leftmost([j \in DOMAIN s |-> BacktickMatchEnd(s, j)], i)
        e == BacktickMatchEnd(s, a)
    IN  IF a = 0
        THEN [result |-> out \o SubSeq(s, i, Len(s)), placeholders |-> ph]
        ELSE ProtectBacktickSpans(s, e + 1, out \o SubSeq(s, i, a - 1) \o Sentinel(Len(ph)),
                 Append(ph, SubSeq(s, a, e)))

\* the first statement of preprocessMathInMarkdown: both protections, one side table
ProtectCode(s) ==
    LET t == ProtectTildeFences(s, 1, <<>>, <<>>)
    IN  ProtectBacktickSpans(t.result, 1, <<>>, t.placeholders)

(***************************************************************************)
(* Block math.                                                             *)
(***************************************************************************)
Dollars == <<"$", "$">>

\* /\$\$([\s\S]*?)\$\$/ at i
BlockMatchEnd(s, i) ==
    IF ~StartsWithAt(s, i, Dollars) THEN 0
    ELSE LET j == IndexOfFrom(s, Dollars, i + 2)
         IN  IF j = 0 THEN 0 ELSE j + 1

\* the callback of the block pass with the trim left out
BlockReplacementNoTrim(latex) == BlockMarker(EscapeHtmlAttr(latex))

\* the callback of the block pass, for the captured latex
BlockReplacement(latex) == BlockMarker(EscapeHtmlAttr(Trim(latex)))

RECURSIVE ConvertBlockMath(_, _, _)
\* .replace(/\$\$([\s\S]*?)\$\$/g, (_, latex) => ...), from position i on
ConvertBlockMath(s, i, out) ==
    LET a == Leftmost([j \in DOMAIN s |-> BlockMatchEnd(s, j)], i)
        e == BlockMatchEnd(s, a)
    IN  IF a = 0
        THEN out \o SubSeq(s, i, Len(s))
        ELSE ConvertBlockMath(s, e + 1,
                 out \o SubSeq(s, i, a - 1) \o BlockReplacement(SubSeq(s, a + 2, e - 2)))

(***************************************************************************)
(* Inline math and its classifier.                                         *)
(***************************************************************************)
\* the ends k of a match of ^\d+ (the quantifier may give digits back)
DigitsEnds(s, from) ==
    {k \in from..Len(s) : AllIn(s, from, k, Digit)}

\* /^\d+([.,]\d+)?/.test(s): the group is optional, so one leading digit decides
startsWithNumber(s) == DigitsEnds(s, 1) # {}

\* one more (?:,\d{3}) behind each end in S
GroupStep(s, S) ==
    {k + 4 : k \in {k \in S : /\ k + 4 <= Len(s)
                              /\ s[k + 1] = ","
                              /\ AllIn(s, k + 2, k + 4, Digit)}}

RECURSIVE GroupClosure(_, _)
GroupClosure(s, S) ==
    LET N == GroupStep(s, S)
    IN  IF N \subseteq S THEN S ELSE GroupClosure(s, S \cup N)

\* /^(?:\d{1,3}(?:,\d{3})+|\d+)(?:\.\d+)?\s*$/.test(s)
isPureNumber(s) ==
    LET grouped == GroupClosure(s, GroupStep(s, {k \in DigitsEnds(s, 1) : k <= 3}))
        whole   == grouped \cup DigitsEnds(s, 1)
        decimal == {m \in 1..Len(s) : \E k \in whole :
                        /\ k + 2 <= m
                        /\ s[k + 1] = "."
                        /\ AllIn(s, k + 2, m, Digit)}
    IN  \E k \in whole \cup decimal : AllIn(s, k + 1, Len(s), Whitespace)

RangeOrCurrencyWords ==
    { <<"a", "n", "d">>, <<"o", "r">>, <<"t", "o">>, <<"p", "e", "r">>,
      <<"e", "a", "c", "h">> }

\* /\b(?:and|or|to|per|each)\b/i.test(s)
hasRangeOrCurrencyWords(s) ==
    \E i \in DOMAIN s : \E w \in RangeOrCurrencyWords :
        /\ i + Len(w) - 1 <= Len(s)
        /\ \A k \in 1..Len(w) : ToLower(s[i + k - 1]) = w[k]
        /\ (i = 1 \/ s[i - 1] \notin WordChar)
        /\ (i + Len(w) > Len(s) \/ s[i + Len(w)] \notin WordChar)

\* /^\d+([.,]\d+)?\s+[a-zA-Z]+/.test(s)
hasEnglishWordsAfterNumber(s) ==
    LET whole    == DigitsEnds(s, 1)
        fraction == {m \in 1..Len(s) : \E k \in whole :
                        /\ k + 2 <= m
                        /\ s[k + 1] \in {".", ","}
                        /\ AllIn(s, k + 2, m, Digit)}
    IN  \E k \in whole \cup fraction : \E p \in (k + 1)..(Len(s) - 1) :
            /\ AllIn(s, k + 1, p, Whitespace)
            /\ s[p + 1] \in Letter

\* /[^\d\s.,+\-*/=^_(){}\\a-zA-Z]/.test(s)
hasNonLatexToken(s) == \E i \in DOMAIN s : s[i] \notin LatexChar

\* the condition with the test for a pure number left out
LooksLikeCurrencyNoPureNumber(trimmed) ==
    /\ startsWithNumber(trimmed)
    /\ \/ hasRangeOrCurrencyWords(trimmed)
       \/ hasEnglishWordsAfterNumber(trimmed)
       \/ hasNonLatexToken(trimmed)

\* the condition with the number test joined by "or" instead of "and"
LooksLikeCurrencyOrNumber(trimmed) ==
    \/ isPureNumber(trimmed)
    \/ startsWithNumber(trimmed)
    \/ hasRangeOrCurrencyWords(trimmed)
    \/ hasEnglishWordsAfterNumber(trimmed)
    \/ hasNonLatexToken(trimmed)

\* the condition of the if statement: leave the match as it is
LooksLikeCurrency(trimmed) ==
    \/ isPureNumber(trimmed)
    \/ /\ startsWithNumber(trimmed)
       /\ \/ hasRangeOrCurrencyWords(trimmed)
          \/ hasEnglishWordsAfterNumber(trimmed)
          \/ hasNonLatexToken(trimmed)

\* /\$([^$\n]+?)\$/ at i: a $, one or more characters that are neither $ nor a
\* newline, and the first $ behind them
InlineMatchEnd(s, i) ==
    IF i < 1 \/ i > Len(s) \/ s[i] # "$" THEN 0
    ELSE LET Stops == {j \in (i + 1)..Len(s) : s[j] \in {"$", "\n"}}
         IN  IF Stops = {} THEN 0
             ELSE LET j == Min(Stops)
                  IN  IF s[j] = "$" /\ j >= i + 2 THEN j ELSE 0

\* the callback of the inline pass, for the whole match and the captured latex
InlineReplacement(match, latex) ==
    LET trimmed == Trim(latex)
    IN  IF LooksLikeCurrency(trimmed)
        THEN match
        ELSE InlineMarker(EscapeHtmlAttr(trimmed))

RECURSIVE ConvertInlineMath(_, _, _)
\* .replace(/\$([^$\n]+?)\$/g, (match, latex) => ...), from position i on
ConvertInlineMath(s, i, out) ==
    LET a == Leftmost([j \in DOMAIN s |-> InlineMatchEnd(s, j)], i)
        e == InlineMatchEnd(s, a)
    IN  IF a = 0
        THEN out \o SubSeq(s, i, Len(s))
        ELSE ConvertInlineMath(s, e + 1,
                 out \o SubSeq(s, i, a - 1)
                     \o InlineReplacement(SubSeq(s, a, e), SubSeq(s, a + 1, e - 1)))

(***************************************************************************)
(* Restoring the protected regions.  String.prototype.replaceAll with a    *)
(* string pattern and a string replacement expands the replacement as a    *)
(* template (GetSubstitution): $$ is a $, $& the matched text, $` the text *)
(* before the match, $' the text behind it; with a string pattern there    *)
(* are no captures, so $1 and the like stay as they are.                   *)
(***************************************************************************)
RECURSIVE GetSubstitution(_, _, _, _, _)
\* template from position t on, for a match of matched at position p of str
GetSubstitution(matched, str, p, template, t) ==
    LET d == IndexOfFrom(template, <<"$">>, t)
    IN  IF d = 0 THEN SubSeq(template, t, Len(template))
        ELSE SubSeq(template, t, d - 1) \o
             (IF d < Len(template) /\ template[d + 1] \in {"$", "&", Backtick, "'"}
              THEN (CASE template[d + 1] = "$" -> <<"$">>
                      [] template[d + 1] = "&" -> matched
                      [] template[d + 1] = Backtick -> SubSeq(str, 1, p - 1)
                      [] template[d + 1] = "'" -> SubSeq(str, p + Len(matched), Len(str)))
                   \o GetSubstitution(matched, str, p, template, d + 2)
              ELSE <<"$">> \o GetSubstitution(matched, str, p, template, d + 1))

RECURSIVE ReplaceAllFrom(_, _, _, _)
\* str.replaceAll(search, template), from position i on
ReplaceAllFrom(str, search, template, i) ==
    LET p == IndexOfFrom(str, search, i)
    IN  IF p = 0 THEN SubSeq(str, i, Len(str))
        ELSE SubSeq(str, i, p - 1)
             \o GetSubstitution(search, str, p, template, 1)
             \o ReplaceAllFrom(str, search, template, p + Len(search))

ReplaceAll(str, search, template) == ReplaceAllFrom(str, search, template, 1)

RECURSIVE RestorePlaceholders(_, _, _)
\* placeholders.forEach((value, idx) => { restored = restored.replaceAll(...) }),
\* from the entry with index idx on
RestorePlaceholders(restored, ph, idx) ==
    IF idx >= Len(ph) THEN restored
    ELSE RestorePlaceholders(ReplaceAll(restored, Sentinel(idx), ph[idx + 1]),
                             ph, idx + 1)

(***************************************************************************)
(* preprocessMathInMarkdown: its locals when it returns.                   *)
(***************************************************************************)
PreprocessMathInMarkdown(md) ==
    LET protected == ProtectCode(md)
        afterBlock  == ConvertBlockMath(protected.result, 1, <<>>)
        afterInline == ConvertInlineMath(afterBlock, 1, <<>>)
    IN  [ placeholders |-> protected.placeholders,
          result       |-> afterInline,
          restored     |-> RestorePlaceholders(afterInline, protected.placeholders, 0) ]

(***************************************************************************)
(* The document tree (JSONContent).  A doc holds blocks: a paragraph with  *)
(* its inline nodes (text, inlineMath), or a blockMath.                    *)
(***************************************************************************)
Text(t) == [type |-> "text", text |-> t]

InlineMath(l) == [type |-> "inlineMath", latex |-> l]

BlockMath(l) == [type |-> "blockMath", latex |-> l]

Paragraph(c) == [type |-> "paragraph", content |-> c]

Doc(c) == [type |-> "doc", content |-> c]

\* no tree: the text was not exported from one
NoDoc == [type |-> "none"]

\* the other nodes of the vocabulary
LinkText(t, href) ==
    [type |-> "text", text |-> t, marks |-> <<[type |-> "link", href |-> href]>>]

MarkedText(t, mark) == [type |-> "text", text |-> t, marks |-> <<[type |-> mark]>>]

Image(src, alt) == [type |-> "image", src |-> src, alt |-> alt]

Heading(level, c) == [type |-> "heading", level |-> level, content |-> c]

\* a heading whose attrs have no level
HeadingNoLevel(c) == [type |-> "heading", content |-> c]

HorizontalRule == [type |-> "horizontalRule"]

CodeBlock(language, t) ==
    [type |-> "codeBlock", language |-> language, content |-> <<Text(t)>>]

Blockquote(c) == [type |-> "blockquote", content |-> c]

ListItem(c) == [type |-> "listItem", content |-> c]

BulletList(items) == [type |-> "bulletList", content |-> items]

OrderedList(start, items) == [type |-> "orderedList", start |-> start, content |-> items]

\* an ordered list whose attrs have no start
OrderedListNoStart(items) == [type |-> "orderedList", content |-> items]

TableHeader(c) == [type |-> "tableHeader", content |-> c]

TableCell(c) == [type |-> "tableCell", content |-> c]

TableRow(cells) == [type |-> "tableRow", content |-> cells]

Table(rows) == [type |-> "table", content |-> rows]

\* a node of a type the serializer does not know
Unknown(c) == [type |-> "widget", content |-> c]

\* a doc without content
DocNoContent == [type |-> "doc"]

(***************************************************************************)
(* marked, for what the import relies on: the marker elements pass through *)
(* as raw HTML and text is escaped.  Markdown syntax other than the        *)
(* markers is not interpreted here: the text between markers stays text.   *)
(***************************************************************************)
Quote == <<"\"">>

\* the end of a marker's opening tag that starts at i, or 0: marked's tag rule
\* takes a double-quoted attribute value up to the next quote, and the tag has to
\* close right behind it
OpenTagEnd(s, i) ==
    IF ~(StartsWithAt(s, i, InlineOpen) \/ StartsWithAt(s, i, BlockOpen)) THEN 0
    ELSE LET from == i + (IF StartsWithAt(s, i, InlineOpen)
                          THEN Len(InlineOpen) ELSE Len(BlockOpen))
             q    == IndexOfFrom(s, Quote, from)
         IN  IF q # 0 /\ q < Len(s) /\ s[q + 1] = ">" THEN q + 1 ELSE 0

SpanEnd == <<"<", "/", "s", "p", "a", "n", ">">>

DivEnd == <<"<", "/", "d", "i", "v", ">">>

\* the end of the tag that starts at i, or 0 when no tag starts there
TagEnd(s, i) ==
    IF StartsWithAt(s, i, SpanEnd) THEN i + Len(SpanEnd) - 1
    ELSE IF StartsWithAt(s, i, DivEnd) THEN i + Len(DivEnd) - 1
    ELSE OpenTagEnd(s, i)

\* marked's escape of one character of text
EscapeText(c) ==
    CASE c = "&"  -> <<"&", "a", "m", "p", ";">>
      [] c = "<"  -> <<"&", "l", "t", ";">>
      [] c = ">"  -> <<"&", "g", "t", ";">>
      [] c = "\"" -> <<"&", "q", "u", "o", "t", ";">>
      [] c = "'"  -> <<"&", "#", "3", "9", ";">>
      [] OTHER    -> <<c>>

\* an & that starts a character reference (&name; or &#digits;), which marked's
\* escape leaves alone
StartsCharRef(s, i) ==
    \E k \in (i + 2)..Len(s) :
        /\ s[k] = ";"
        /\ \/ AllIn(s, i + 1, k - 1, WordChar)
           \/ s[i + 1] = "#" /\ k >= i + 3 /\ AllIn(s, i + 2, k - 1, Digit)

EscapeTextRun(s) ==
    Concat([i \in DOMAIN s |->
               IF s[i] = "&" /\ StartsCharRef(s, i) THEN <<"&">> ELSE EscapeText(s[i])])

RECURSIVE Marked(_, _)
\* marked(preprocessed), from position i on
Marked(s, i) ==
    LET a == Leftmost([j \in DOMAIN s |-> TagEnd(s, j)], i)
        e == TagEnd(s, a)
    IN  IF a = 0 THEN EscapeTextRun(SubSeq(s, i, Len(s)))
        ELSE EscapeTextRun(SubSeq(s, i, a - 1)) \o SubSeq(s, a, e) \o Marked(s, e + 1)

(***************************************************************************)
(* The schema parse of the rendered markup: the HTML parser decodes the    *)
(* character references of text and of attribute values, and the           *)
(* Mathematics extension reads data-latex of the two marker elements.      *)
(***************************************************************************)
Entities ==
    << [ref |-> <<"&", "a", "m", "p", ";">>,      char |-> "&"],
       [ref |-> <<"&", "l", "t", ";">>,           char |-> "<"],
       [ref |-> <<"&", "g", "t", ";">>,           char |-> ">"],
       [ref |-> <<"&", "q", "u", "o", "t", ";">>, char |-> "\""],
       [ref |-> <<"&", "#", "3", "9", ";">>,      char |-> "'"] >>

RECURSIVE DecodeEntities(_, _)
\* s with its character references decoded, from position i on
DecodeEntities(s, i) ==
    LET a == IndexOfFrom(s, <<"&">>, i)
    IN  IF a = 0 THEN SubSeq(s, i, Len(s))
        ELSE LET Hit == {k \in DOMAIN Entities : StartsWithAt(s, a, Entities[k].ref)}
             IN  IF Hit = {}
                 THEN SubSeq(s, i, a) \o DecodeEntities(s, a + 1)
                 ELSE LET k == CHOOSE k \in Hit : TRUE
                      IN  SubSeq(s, i, a - 1) \o <<Entities[k].char>>
                          \o DecodeEntities(s, a + Len(Entities[k].ref))

\* the text node of a run of text, none for an empty run
TextNodes(run) == IF run = <<>> THEN <<>> ELSE <<Text(DecodeEntities(run, 1))>>

\* the node of the marker whose opening tag is s[a..e], none for a closing tag
MarkerNodes(s, a, e) ==
    IF StartsWithAt(s, a, InlineOpen)
    THEN <<InlineMath(DecodeEntities(SubSeq(s, a + Len(InlineOpen), e - 2), 1))>>
    ELSE IF StartsWithAt(s, a, BlockOpen)
    THEN <<BlockMath(DecodeEntities(SubSeq(s, a + Len(BlockOpen), e - 2), 1))>>
    ELSE <<>>

RECURSIVE ParseNodes(_, _)
\* the nodes of the markup in document order, from position i on
ParseNodes(s, i) ==
    LET a == Leftmost([j \in DOMAIN s |-> IF s[j] = "<" THEN TagEnd(s, j) ELSE 0], i)
        e == TagEnd(s, a)
    IN  IF a = 0 THEN TextNodes(SubSeq(s, i, Len(s)))
        ELSE TextNodes(SubSeq(s, i, a - 1)) \o MarkerNodes(s, a, e) \o ParseNodes(s, e + 1)

RECURSIVE GroupBlocks(_, _)
\* the blocks of a doc from its nodes: a blockMath stands alone, the inline nodes
\* between two of them make a paragraph (para holds the one being collected)
GroupBlocks(nodes, para) ==
    LET flush == IF para = <<>> THEN <<>> ELSE <<Paragraph(para)>>
    IN  IF nodes = <<>> THEN flush
        ELSE IF Head(nodes).type = "blockMath"
        THEN flush \o <<Head(nodes)>> \o GroupBlocks(Tail(nodes), <<>>)
        ELSE GroupBlocks(Tail(nodes), Append(para, Head(nodes)))

\* PMDOMParser.fromSchema(schema).parse(document.body).toJSON()
ParseHTML(h) == Doc(GroupBlocks(ParseNodes(h, 1), <<>>))

(***************************************************************************)
(* jsonContentToMarkdown and makeExportImageRewriter.                      *)
(***************************************************************************)
\* jsonContentToMarkdown called without a config
NoConfig == "none"

\* { rewriteImageSrc: makeExportImageRewriter() }
ExportConfig == "export"

\* { rewriteImageSrc: (src) => src.replace("/images/", "./local/") }
LocalConfig == "local"

ImagesPrefix == <<"/", "i", "m", "a", "g", "e", "s", "/">>

\* the rewriter with the query left in place
MakeExportImageRewriterKeepQuery(src) ==
    IF ~StartsWithAt(src, 1, ImagesPrefix) THEN src ELSE <<".">> \o src

\* makeExportImageRewriter()(src): /images/<key>?<query> becomes ./images/<key>
MakeExportImageRewriter(src) ==
    IF ~StartsWithAt(src, 1, ImagesPrefix) THEN src
    ELSE LET q == IndexOfFrom(src, <<"?">>, 1)
         IN  <<".">> \o (IF q = 0 THEN src ELSE SubSeq(src, 1, q - 1))

\* src.replace("/images/", "./local/"): the first occurrence
LocalRewriter(src) ==
    LET i == IndexOfFrom(src, ImagesPrefix, 1)
    IN  IF i = 0 THEN src
        ELSE SubSeq(src, 1, i - 1) \o <<".", "/", "l", "o", "c", "a", "l", "/">>
             \o SubSeq(src, i + Len(ImagesPrefix), Len(src))

\* config.rewriteImageSrc, the identity when the config has none
RewriteImageSrc(options, src) ==
    IF options = ExportConfig THEN MakeExportImageRewriter(src)
    ELSE IF options = LocalConfig THEN LocalRewriter(src)
    ELSE src

\* the parts, sep between every two of them
JoinWith(parts, sep) ==
    Concat([i \in 1 .. (2 * Len(parts) - 1) |->
               IF i % 2 = 1 THEN parts[(i + 1) \div 2] ELSE sep])

\* the parts that are not empty
NonEmpty(parts) == SelectSeq(parts, LAMBDA p : p # <<>>)

\* the lines of a text
SplitLines(s) ==
    LET cuts == {i \in DOMAIN s : s[i] = "\n"}
        n == Cardinality(cuts)
        cut(k) == IF k = 0 THEN 0
                  ELSE IF k = n + 1 THEN Len(s) + 1
                  ELSE CHOOSE i \in cuts : Cardinality({j \in cuts : j < i}) = k - 1
    IN  [k \in 1 .. n + 1 |-> SubSeq(s, cut(k - 1) + 1, cut(k) - 1)]

\* the children of a node, none when content is absent
ContentOf(n) == IF "content" \in DOMAIN n THEN n.content ELSE <<>>

\* the order the marks of a text are applied in, the innermost first
MarkOrder == <<"code", "bold", "italic", "strike", "link">>

\* one mark around a text
ApplyMark(s, type, marks) ==
    LET M == {i \in DOMAIN marks : marks[i].type = type}
    IN  IF M = {} THEN s
        ELSE IF type = "code" THEN <<Backtick>> \o s \o <<Backtick>>
        ELSE IF type = "bold" THEN <<"*", "*">> \o s \o <<"*", "*">>
        ELSE IF type = "italic" THEN <<"_">> \o s \o <<"_">>
        ELSE IF type = "strike" THEN <<"~", "~">> \o s \o <<"~", "~">>
        ELSE <<"[">> \o s \o <<"]", "(">> \o marks[Min(M)].href \o <<")">>

RECURSIVE ApplyMarks(_, _, _)
\* a text with its marks, in the canonical order from the k-th on
ApplyMarks(s, marks, k) ==
    IF k > Len(MarkOrder) THEN s
    ELSE ApplyMarks(ApplyMark(s, MarkOrder[k], marks), marks, k + 1)

\* an image with its src as it is
ImageToMarkdownRaw(n, options) ==
    <<"!", "[">> \o n.alt \o <<"]", "(">> \o n.src \o <<")">>

\* image{src, alt} as ![alt](rewriteImageSrc(src))
ImageToMarkdown(n, options) ==
    <<"!", "[">> \o n.alt \o <<"]", "(">> \o RewriteImageSrc(options, n.src) \o <<")">>

\* inlineMath between its delimiters, whatever the latex
InlineMathAlways(n) == <<"$">> \o n.latex \o <<"$">>

\* latex between the delimiters, nothing for a blank latex
InlineMathToMarkdown(n) ==
    IF Trim(n.latex) = <<>> THEN <<>> ELSE <<"$">> \o n.latex \o <<"$">>

\* an inline node: text with its marks, inlineMath, an image; nothing for any
\* other type
InlineToMarkdownWith(n, options) ==
    IF n.type = "text"
    THEN (IF "marks" \in DOMAIN n THEN ApplyMarks(n.text, n.marks, 1) ELSE n.text)
    ELSE IF n.type = "inlineMath" THEN InlineMathToMarkdown(n)
    ELSE IF n.type = "image" THEN ImageToMarkdown(n, options)
    ELSE <<>>

\* an inline node, without a config
InlineToMarkdown(n) == InlineToMarkdownWith(n, NoConfig)

\* the inline children of a node, in order
InlineContent(n, options) ==
    Concat([i \in DOMAIN ContentOf(n) |-> InlineToMarkdownWith(ContentOf(n)[i], options)])

RECURSIVE JoinBlocksKeepEmpty(_)
\* every block, also one that prints nothing, a blank line between two of them
JoinBlocksKeepEmpty(parts) ==
    IF parts = <<>> THEN <<>>
    ELSE IF Len(parts) = 1 THEN Head(parts)
    ELSE Head(parts) \o <<"\n", "\n">> \o JoinBlocksKeepEmpty(Tail(parts))

RECURSIVE JoinBlocks(_)
\* the blocks that print something, a blank line between two of them
JoinBlocks(parts) ==
    IF parts = <<>> THEN <<>>
    ELSE IF Head(parts) = <<>> THEN JoinBlocks(Tail(parts))
    ELSE LET rest == JoinBlocks(Tail(parts))
         IN  IF rest = <<>> THEN Head(parts) ELSE Head(parts) \o <<"\n", "\n">> \o rest

\* "#" * level, level 1 when the heading has none
Hashes(n) == [k \in 1 .. (IF "level" \in DOMAIN n THEN n.level ELSE 1) |-> "#"]

\* one space for every level of nesting
IndentOneSpace(depth) == [k \in 1 .. depth |-> " "]

\* two spaces for every level of nesting
Indent(depth) == [k \in 1 .. 2 * depth |-> " "]

\* the marker of an item, numbered from 1 whatever start says
ItemMarkerFromOne(list, k) ==
    IF list.type = "orderedList" THEN DecimalDigits(1 + k) \o <<".">> ELSE <<"-">>

\* the marker of the k-th item (k = 0, 1, ...) of a list
ItemMarker(list, k) ==
    IF list.type = "orderedList"
    THEN DecimalDigits((IF "start" \in DOMAIN list THEN list.start ELSE 1) + k) \o <<".">>
    ELSE <<"-">>

\* a cell with its line breaks kept
CellToMarkdownKeepBreaks(cell, options) ==
    LET kids == ContentOf(cell)
    IN  JoinWith(NonEmpty([i \in DOMAIN kids |-> InlineContent(kids[i], options)]), <<" ">>)

\* a cell on one line: its paragraphs side by side, line breaks as spaces
CellToMarkdown(cell, options) ==
    LET kids == ContentOf(cell)
    IN  ReplaceChar(JoinWith(NonEmpty([i \in DOMAIN kids |-> InlineContent(kids[i], options)]),
                             <<" ">>),
                    "\n", <<" ">>)

\* a row as a pipe-delimited line
RowToMarkdown(row, options) ==
    LET cells == ContentOf(row)
    IN  <<"|", " ">> \o JoinWith([i \in DOMAIN cells |-> CellToMarkdown(cells[i], options)], <<" ", "|", " ">>)
        \o <<" ", "|">>

\* the line under the header: one --- cell for every cell of the header
SeparatorRow(n) == <<"|", " ">> \o JoinWith([i \in 1 .. n |-> <<"-", "-", "-">>], <<" ", "|", " ">>) \o <<" ", "|">>

\* a table: header line, separator line, one line for every other row
TableToMarkdown(t, options) ==
    LET rows == ContentOf(t)
    IN  IF rows = <<>> THEN <<>>
        ELSE JoinWith(<<RowToMarkdown(rows[1], options),
                        SeparatorRow(Len(ContentOf(rows[1])))>>
                      \o [i \in 1 .. Len(rows) - 1 |-> RowToMarkdown(rows[i + 1], options)],
                      <<"\n">>)

\* a code block: the fence with the language, the text as it is, the fence
CodeBlockToMarkdown(b) ==
    <<Backtick, Backtick, Backtick>> \o (IF "language" \in DOMAIN b THEN b.language ELSE <<>>) \o <<"\n">>
    \o Concat([i \in DOMAIN ContentOf(b) |-> ContentOf(b)[i].text]) \o <<"\n">> \o <<Backtick, Backtick, Backtick>>

\* latex between two $$ lines, nothing for a blank latex
BlockMathToMarkdown(b) ==
    IF Trim(b.latex) = <<>> THEN <<>>
    ELSE <<"$", "$", "\n">> \o b.latex \o <<"\n", "$", "$">>

RECURSIVE NodeToMarkdown(_, _, _)
\* a block node at a depth of list nesting; nothing for a type that is not known
NodeToMarkdown(b, options, depth) ==
    LET kids == ContentOf(b)
        \* a list item: the marker and the paragraphs on one line, then the lists
        \* inside the item, one level deeper
        Item(k) ==
            LET parts == ContentOf(kids[k])
                isList(p) == p.type \in {"bulletList", "orderedList"}
                line == Indent(depth) \o ItemMarker(b, k - 1) \o <<" ">>
                        \o JoinWith(NonEmpty([i \in DOMAIN parts |->
                                        IF parts[i].type = "paragraph"
                                        THEN InlineContent(parts[i], options) ELSE <<>>]),
                                    <<" ">>)
                nested == NonEmpty([i \in DOMAIN parts |->
                                        IF isList(parts[i])
                                        THEN NodeToMarkdown(parts[i], options, depth + 1)
                                        ELSE <<>>])
            IN  JoinWith(<<line>> \o nested, <<"\n">>)
    IN  IF b.type = "paragraph" THEN InlineContent(b, options)
        ELSE IF b.type = "heading" THEN Hashes(b) \o <<" ">> \o InlineContent(b, options)
        ELSE IF b.type = "blockMath" THEN BlockMathToMarkdown(b)
        ELSE IF b.type = "image" THEN ImageToMarkdown(b, options)
        ELSE IF b.type = "horizontalRule" THEN <<"-", "-", "-">>
        ELSE IF b.type = "codeBlock" THEN CodeBlockToMarkdown(b)
        ELSE IF b.type = "blockquote"
        THEN LET lines == SplitLines(JoinBlocks([i \in DOMAIN kids |->
                                                    NodeToMarkdown(kids[i], options, 0)]))
             IN  JoinWith([i \in DOMAIN lines |-> <<">", " ">> \o lines[i]], <<"\n">>)
        ELSE IF b.type \in {"bulletList", "orderedList"}
        THEN JoinWith([k \in DOMAIN kids |-> Item(k)], <<"\n">>)
        ELSE IF b.type = "table" THEN TableToMarkdown(b, options)
        ELSE <<>>

\* a block of a document exported without a config
BlockToMarkdown(b) == NodeToMarkdown(b, NoConfig, 0)

\* jsonContentToMarkdown without the test of the root's type
JsonContentToMarkdownAnyRoot(d, options) ==
    IF ContentOf(d) = <<>> THEN <<>>
    ELSE JoinBlocks([i \in DOMAIN d.content |-> NodeToMarkdown(d.content[i], options, 0)])

\* jsonContentToMarkdown(d, config)
JsonContentToMarkdownWith(d, options) ==
    IF d.type # "doc" \/ ContentOf(d) = <<>> THEN <<>>
    ELSE JoinBlocks([i \in DOMAIN d.content |-> NodeToMarkdown(d.content[i], options, 0)])

\* jsonContentToMarkdown(d)
JsonContentToMarkdown(d) == JsonContentToMarkdownWith(d, NoConfig)

(***************************************************************************)
(* The inputs.  Every bound of the model is a definition.                  *)
(***************************************************************************)
\* the strings of at most n pieces out of the set Pieces
StringsOf(Pieces, n) ==
    {Concat(ps) : ps \in UNION {[1..k -> Pieces] : k \in 0..n}}

MaxPieces == 3

\* markdown made of the characters the preprocessor looks at, a sentinel among them
GeneralPieces ==
    { <<"$">>, Dollars, <<Backtick>>, Tildes, <<"x">>, <<" ">>, <<"&">>, Sentinel(0) }

GeneralTexts == StringsOf(GeneralPieces, MaxPieces)

MaxTicks == 3

MaxSegments == 2

\* markdown made of backtick runs with text between them
BacktickSegments ==
    {Ticks(n) \o c : n \in 1..MaxTicks, c \in {<<"a">>, <<"$", "x", "$">>}}

BacktickTexts ==
    {t \o Ticks(n) : t \in StringsOf(BacktickSegments, MaxSegments), n \in 0..MaxTicks}

\* prose with dollar amounts: one amount, or two joined by a range or currency word
Amounts ==
    { <<"$", "5">>, <<"$", "1", "0", ".", "9", "9">>,
      <<"$", "5", "0", ",", "0", "0", "0", ",", "0", "0", "0">>,
      <<"$", "5", "0", ",", "0", "0", "0", "$">> }

Joiners ==
    { <<" ", "a", "n", "d", " ">>, <<" ", "O", "r", " ">>, <<" ", "t", "o", " ">>,
      <<" ", "p", "e", "r", " ">>, <<" ", "e", "a", "c", "h", " ">> }

Leads == { <<>>, <<"I", " ", "h", "a", "v", "e", " ">>, <<"C", "o", "s", "t", ":", " ">> }

Tails == { <<>>, <<".">>, <<" ", "n", "o", "w", ".">> }

CurrencyTexts ==
    {l \o a \o t : l \in Leads, a \in Amounts, t \in Tails}
    \cup {l \o a \o j \o b \o t :
              l \in Leads, a \in Amounts, j \in Joiners, b \in Amounts, t \in Tails}

MaxTokens == 3

\* one inline candidate: $...$ around an interior made of the classifier's tokens
ClassifierTokens ==
    { <<"5">>, <<",", "0", "0", "0">>, <<".", "5">>, <<" ">>, <<"x">>, <<"t", "o">>,
      <<"%">>, <<"+">> }

Interiors == StringsOf(ClassifierTokens, MaxTokens) \ {<<>>}

CandidateTexts ==
    {<<"$">> \o s \o <<"$">> : s \in Interiors}
    \cup {<<"a", " ", "$">> \o s \o <<"$", " ", "b">> : s \in Interiors}

\* a code region inside a code region, math beside math, code inside math
NestedTexts ==
    { <<Backtick, "~", "~", "~", "a", "~", "~", "~", Backtick>>, <<Backtick, Backtick, "~", "~", "~", Backtick, "~", "~", "~", Backtick, Backtick>>, <<"~", "~", "~", Backtick, "a", Backtick, "~", "~", "~">>,
      <<"$", "$", "a", " ", "$", " ", "b", "$", "$", " ", "a", "n", "d", " ", "$", "x", "$">>, <<"$", "$", "a", "$", "$", " ", "$", "x", "$">>, <<"$", "x", "$", " ", "$", "$", "a", "$", "$">>,
      <<"$", Backtick, "\"", Backtick, "$">>, <<"$", "$", Backtick, "<", Backtick, "$", "$">>, <<"$", Backtick, "x", Backtick, "$">>, <<"$", "a", "&", "b", "$">> }

ImportTexts ==
    GeneralTexts \cup BacktickTexts \cup CurrencyTexts \cup CandidateTexts \cup NestedTexts

MaxLatex == 3

\* the latex of a math node
LatexChars == {"x", "5", " ", ",", "\"", "&", Backtick}

Latex == StringsOf({<<c>> : c \in LatexChars}, MaxLatex)

MaxNodes == 3

\* the trees handed to the exporter
Docs ==
    {Doc(<<Paragraph(<<InlineMath(l)>>)>>) : l \in Latex}
    \cup {Doc(<<BlockMath(l)>>) : l \in Latex}
    \cup {Doc(<<Paragraph(c)>>) :
              c \in UNION {[1..k -> {InlineMath(<<"x">>), InlineMath(<<"5">>),
                                     Text(<<"a">>)}] : k \in 2..MaxNodes}}

(***************************************************************************)
(* The trees handed to jsonContentToMarkdown alone.                        *)
(***************************************************************************)
\* a paragraph of one text
P(t) == Paragraph(<<Text(t)>>)

\* roots that are no doc, and docs with no content
EmptyRoots ==
    { DocNoContent, Doc(<<>>), [type |-> "paragraph"], P(<<"a">>), Text(<<"a">>),
      Heading(1, <<Text(<<"a">>)>>), BulletList(<<ListItem(<<P(<<"a">>)>>)>>),
      Image(<<"/", "i", "m", "a", "g", "e", "s", "/", "a">>, <<"b">>), BlockMath(<<"x">>), HorizontalRule, Unknown(<<P(<<"a">>)>>) }

MaxDepth == 2

\* the kinds of list
ListKinds == {"bulletList", "orderedList", "orderedListNoStart"}

\* a list of a kind
ListOf(kind, items) ==
    IF kind = "bulletList" THEN BulletList(items)
    ELSE IF kind = "orderedList" THEN OrderedList(3, items)
    ELSE OrderedListNoStart(items)

RECURSIVE NestedList(_, _)
\* lists inside lists, kinds[k] the kind at depth k - 1: the first item holds the
\* list of the next depth, a second item follows it; the text of an item is its depth
NestedList(kinds, k) ==
    LET label == P(DecimalDigits(k - 1))
    IN  IF k = Len(kinds) THEN ListOf(kinds[k], <<ListItem(<<label>>)>>)
        ELSE ListOf(kinds[k], <<ListItem(<<label, NestedList(kinds, k + 1)>>),
                                ListItem(<<label>>)>>)

NestedLists ==
    {Doc(<<NestedList(kinds, 1)>>) :
        kinds \in UNION {[1 .. n -> ListKinds] : n \in 1 .. MaxDepth + 1}}

MaxItems == 2

\* attrs.start of an ordered list, -1 for a list without the attribute
Starts == {-1, 0, 1, 3, 9}

\* what the author typed in an item
ItemTexts == {<<"a">>, <<"7", ".", " ", "b">>}

\* ordered lists of paragraphs
OrderedLists ==
    {Doc(<<IF s = -1 THEN OrderedListNoStart([k \in DOMAIN ts |-> ListItem(<<P(ts[k])>>)])
           ELSE OrderedList(s, [k \in DOMAIN ts |-> ListItem(<<P(ts[k])>>)])>>) :
        s \in Starts, ts \in UNION {[1 .. n -> ItemTexts] : n \in 1 .. MaxItems}}

MaxColumns == 2

MaxRows == 2

\* what a cell holds: short and long text, a line break, two paragraphs, nothing
CellContents ==
    << <<P(<<"a">>)>>, <<P(<<"a", "b", "c", "d", "e", "f", "g", "h">>)>>, <<P(<<"x", "\n", "y">>)>>, <<P(<<"p">>), P(<<"q">>)>>, <<>> >>

\* the table of n columns and r rows under the header, its cells taken from
\* CellContents in turn, from the a-th on in the header and the b-th on below
TableOf(n, r, a, b) ==
    LET c(i) == CellContents[(i % Len(CellContents)) + 1]
    IN  Table(<<TableRow([j \in 1 .. n |-> TableHeader(c(a + j))])>>
              \o [i \in 1 .. r |-> TableRow([j \in 1 .. n |-> TableCell(c(b + i + j))])])

Tables ==
    {Doc(<<P(<<"t">>), TableOf(n, r, a, b)>>) :
        n \in 1 .. MaxColumns, r \in 0 .. MaxRows,
        a \in DOMAIN CellContents, b \in DOMAIN CellContents}

\* blocks of known and unknown types, headings with and without a level
MixedBlocks ==
    { P(<<"a">>), Unknown(<<>>), Unknown(<<P(<<"b">>)>>), HeadingNoLevel(<<Text(<<"h">>)>>),
      Heading(2, <<Text(<<"h">>)>>), HorizontalRule,
      Paragraph(<<Text(<<"a">>), Unknown(<<>>), MarkedText(<<"b">>, "bold")>>),
      BulletList(<<ListItem(<<P(<<"i">>), Unknown(<<>>)>>)>>),
      Blockquote(<<Unknown(<<>>), P(<<"q">>)>>) }

MixedDocs == {Doc(bs) : bs \in UNION {[1 .. n -> MixedBlocks] : n \in 1 .. MaxNodes}}

\* latex that is empty or white space
BlankLatex == {<<>>, <<" ">>, <<"\t", " ">>}

\* blocks with math nodes of blank and of real latex
MathBlocks ==
    {Paragraph(<<Text(<<"a">>), InlineMath(l), Text(<<"b">>)>>) : l \in BlankLatex \cup {<<"x">>}}
    \cup {Paragraph(<<InlineMath(l)>>) : l \in BlankLatex}
    \cup {BlockMath(l) : l \in BlankLatex \cup {<<"y">>}}
    \cup {P(<<"c">>)}

MathDocs == {Doc(bs) : bs \in UNION {[1 .. n -> MathBlocks] : n \in 1 .. MaxNodes}}

\* the src of an image
Urls ==
    { <<"/", "i", "m", "a", "g", "e", "s", "/", "a", "b", "c", "-", "1", "2", "3", ".", "j", "p", "g", "?", "q", "u", "a", "l", "i", "t", "y", "=", "8", "0">>, <<"/", "i", "m", "a", "g", "e", "s", "/", "a", "b", "c", ".", "j", "p", "g">>, <<"/", "i", "m", "a", "g", "e", "s", "/", "a", "/", "i", "m", "a", "g", "e", "s", "/", "b", "?", "c", "?", "d">>,
      <<"h", "t", "t", "p", "s", ":", "/", "/", "e", "x", "a", "m", "p", "l", "e", ".", "c", "o", "m", "/", "p", "h", "o", "t", "o", ".", "j", "p", "g">>, <<"h", "t", "t", "p", "s", ":", "/", "/", "e", ".", "c", "o", "m", "/", "i", "m", "a", "g", "e", "s", "/", "a", ".", "p", "n", "g", "?", "w", "=", "1">>,
      <<"i", "m", "a", "g", "e", "s", "/", "a", ".", "j", "p", "g">>, <<"/", "i", "m", "a", "g", "e", "/", "a", ".", "j", "p", "g">>, <<"/", "i", "m", "a", "g", "e", "s", "/">> }

\* the alt of an image
Alts == {<<>>, <<"p", "h", "o", "t", "o">>}

\* images as blocks and inside paragraphs, next to a link and a text that hold URLs
ImageDocs ==
    {Doc(<<Image(u, a)>>) : u \in Urls, a \in Alts}
    \cup {Doc(<<Paragraph(<<LinkText(<<"t">>, u), Image(u, a), Text(v)>>), Image(v, a)>>) :
              u \in Urls, v \in Urls, a \in Alts}

Configs == {NoConfig, ExportConfig, LocalConfig}

\* the trees of the exports without an import
Trees == EmptyRoots \cup NestedLists \cup OrderedLists \cup Tables \cup MixedDocs
         \cup MathDocs \cup ImageDocs

(***************************************************************************)
(* The conversions as steps: the export of a tree, then the import         *)
(* markdownToJsonContent with its awaits, then the export of what was      *)
(* imported.                                                               *)
(***************************************************************************)
\* null, the key of no editor
NoKey == 0

\* the formula-modal store as the module loads it, and no call of it made
StoreIdle ==
    /\ openers = <<>>
    /\ activeOpenerKey = NoKey
    /\ payload = [instanceKey |-> NoKey]
    /\ invoked = <<>>
    /\ propagated = FALSE
    /\ opens = 0
    /\ nextFn = 1
    /\ strayed = FALSE

\* no workflow run created
WorkflowIdle ==
    /\ now = 0
    /\ publishedAt = 0
    /\ stored = "missing"
    /\ post = "none"
    /\ steps = <<>>
    /\ stage = "none"

\* no post editor mounted
HookIdle ==
    /\ processState = "IDLE"
    /\ timers = <<>>
    /\ mutations = 0
    /\ cycles = 0
    /\ handled = 0
    /\ title = <<>>
    /\ debouncedTitle = <<>>
    /\ prevTitleRef = <<>>
    /\ isPending = FALSE
    /\ requested = <<>>
    /\ slug = [from |-> "initial", title |-> <<>>]
    /\ edits = 0
    /\ isFirstTitleMount = TRUE
    /\ sessionSynced = FALSE
    /\ kvSnapshot = [title |-> <<>>, slug |-> [from |-> "initial", title |-> <<>>]]

\* no concurrent calls, and nothing else of the editor running
OthersIdle ==
    /\ calls = <<>>
    /\ StoreIdle
    /\ WorkflowIdle
    /\ HookIdle

\* nothing converted yet
Fresh ==
    /\ placeholders = <<>>
    /\ result = <<>>
    /\ preprocessed = <<>>
    /\ html = <<>>
    /\ json = NoDoc
    /\ exported = <<>>

\* an import of markdown text
Init ==
    /\ doc = NoDoc
    /\ config = NoConfig
    /\ markdown \in ImportTexts
    /\ pc = "preprocess"
    /\ Fresh
    /\ OthersIdle

\* an export of a tree, imported again
InitRoundTrip ==
    /\ doc \in Docs
    /\ config = NoConfig
    /\ markdown = <<>>
    /\ pc = "export"
    /\ Fresh
    /\ OthersIdle

\* jsonContentToMarkdown(doc), its result handed to markdownToJsonContent
Export ==
    /\ pc = "export"
    /\ markdown' = JsonContentToMarkdown(doc)
    /\ pc' = "preprocess"
    /\ UNCHANGED otherVars
    /\ UNCHANGED <<doc, placeholders, result, preprocessed, html, json, exported, config>>

\* const preprocessed = preprocessMathInMarkdown(markdown)
Preprocess ==
    /\ pc = "preprocess"
    /\ LET r == PreprocessMathInMarkdown(markdown)
       IN  /\ placeholders' = r.placeholders
           /\ result' = r.result
           /\ preprocessed' = r.restored
    /\ pc' = "render"
    /\ UNCHANGED otherVars
    /\ UNCHANGED <<doc, markdown, html, json, exported, config>>

\* marked handed the markdown itself instead of the preprocessed text
RenderOfMarkdown ==
    /\ pc = "render"
    /\ html' = Marked(markdown, 1)
    /\ pc' = "parse"
    /\ UNCHANGED otherVars
    /\ UNCHANGED <<doc, markdown, placeholders, result, preprocessed, json, exported, config>>

\* const html = await marked(preprocessed)
Render ==
    /\ pc = "render"
    /\ html' = Marked(preprocessed, 1)
    /\ pc' = "parse"
    /\ UNCHANGED otherVars
    /\ UNCHANGED <<doc, markdown, placeholders, result, preprocessed, json, exported, config>>

\* return PMDOMParser.fromSchema(schema).parse(document.body).toJSON()
Parse ==
    /\ pc = "parse"
    /\ json' = ParseHTML(html)
    /\ pc' = "parsed"
    /\ UNCHANGED otherVars
    /\ UNCHANGED <<doc, markdown, placeholders, result, preprocessed, html, exported, config>>

\* jsonContentToMarkdown of the tree that came back, when the text came from a tree
Reexport ==
    /\ pc = "parsed"
    /\ doc # NoDoc
    /\ exported' = JsonContentToMarkdown(json)
    /\ pc' = "done"
    /\ UNCHANGED otherVars
    /\ UNCHANGED <<doc, markdown, placeholders, result, preprocessed, html, json, config>>

Next == Preprocess \/ Render \/ Parse

Spec == Init /\ [][Next]_vars

\* await import("marked") or await marked(preprocessed) throws: the promise of
\* markdownToJsonContent is rejected
RenderThrows ==
    /\ pc = "render"
    /\ pc' = "rejected"
    /\ UNCHANGED otherVars
    /\ UNCHANGED <<doc, markdown, placeholders, result, preprocessed, html, json, exported,
                   config>>

\* an import, getSchema, parseHTML or PMDOMParser.parse throws: the promise is
\* rejected
ParseThrows ==
    /\ pc = "parse"
    /\ pc' = "rejected"
    /\ UNCHANGED otherVars
    /\ UNCHANGED <<doc, markdown, placeholders, result, preprocessed, html, json, exported,
                   config>>

\* markdownToJsonContent with the stages that may throw
NextPipeline == Preprocess \/ Render \/ RenderThrows \/ Parse \/ ParseThrows

SpecPipeline == Init /\ [][NextPipeline]_vars

NextRoundTrip == Export \/ Preprocess \/ Render \/ Parse \/ Reexport

SpecRoundTrip == InitRoundTrip /\ [][NextRoundTrip]_vars

\* an export alone: a tree, and a config when the tree holds images
InitSerialize ==
    /\ doc \in Trees
    /\ config \in (IF doc \in ImageDocs THEN Configs ELSE {NoConfig})
    /\ markdown = <<>>
    /\ pc = "serialize"
    /\ Fresh
    /\ OthersIdle

\* jsonContentToMarkdown(doc, config)
Serialize ==
    /\ pc = "serialize"
    /\ exported' = JsonContentToMarkdownWith(doc, config)
    /\ pc' = "serialized"
    /\ UNCHANGED otherVars
    /\ UNCHANGED <<doc, markdown, placeholders, result, preprocessed, html, json, config>>

NextSerialize == Serialize

SpecSerialize == InitSerialize /\ [][NextSerialize]_vars

(***************************************************************************)
(* What the properties below speak of.                                     *)
(***************************************************************************)
\* the import has run its preprocessor
Preprocessed == pc \in {"render", "parse", "parsed", "done"}

\* the import has returned its tree
Imported == pc \in {"parsed", "done"}

HasInlineMarker(s) == Contains(s, InlineOpen)

HasBlockMarker(s) == Contains(s, BlockOpen)

\* the nodes of a tree: its blocks and the inline nodes of its paragraphs
NodesOf(d) ==
    IF d.type # "doc" THEN {}
    ELSE {d.content[i] : i \in DOMAIN d.content}
         \cup UNION {{d.content[i].content[k] : k \in DOMAIN d.content[i].content} :
                        i \in {i \in DOMAIN d.content : d.content[i].type = "paragraph"}}

\* latex "contains no $ and no newline"
NoDollarNoNewline(l) == \A i \in DOMAIN l : l[i] \notin {"$", "\n"}

\* text without a backtick, a tilde or U+0000
NoCodeDelimiter(l) == \A i \in DOMAIN l : l[i] \notin {Backtick, "~", NUL}

\* latex in which the protection pass finds no code region, and without U+0000
NoCodeRegion(l) ==
    /\ ProtectCode(l).placeholders = <<>>
    /\ \A i \in DOMAIN l : l[i] # NUL

\* the classifier rule as the specification words it
PlainTextRule(s) ==
    \/ isPureNumber(s)
    \/ /\ startsWithNumber(s)
       /\ (hasRangeOrCurrencyWords(s) \/ hasEnglishWordsAfterNumber(s) \/ hasNonLatexToken(s))

(***************************************************************************)
(* C1  Inline math round trip.                                             *)
(***************************************************************************)
\* C1 as claimed: for every latex without $ and newline, exporting
\* doc(paragraph(inlineMath{latex})) and importing the text gives an inlineMath
\* node with exactly that latex.
C1_InlineRoundTrip ==
    \A l \in Latex :
        (Imported /\ doc = Doc(<<Paragraph(<<InlineMath(l)>>)>>) /\ NoDollarNoNewline(l))
            => InlineMath(l) \in NodesOf(json)

\* C1 amended: the round trip holds for a latex that moreover is not blank, has no
\* white space at its ends, is not left as plain text by the classifier, and holds
\* no tilde fence, no backtick span and no U+0000.
C1_InlineRoundTripAmended ==
    \A l \in Latex :
        ( /\ Imported
          /\ doc = Doc(<<Paragraph(<<InlineMath(l)>>)>>)
          /\ NoDollarNoNewline(l)
          /\ l # <<>> /\ Trim(l) = l
          /\ ~PlainTextRule(l)
          /\ NoCodeRegion(l) )
            => InlineMath(l) \in NodesOf(json)

\* a latex with a backtick, a quote and an ampersand came back as it was
C1_Witness ==
    /\ pc = "done"
    /\ doc = Doc(<<Paragraph(<<InlineMath(<<Backtick, "\"", "&">>)>>)>>)
    /\ markdown = <<"$", Backtick, "\"", "&", "$">>
    /\ json = doc

(***************************************************************************)
(* C2  Block math round trip.                                              *)
(***************************************************************************)
\* C2 as claimed: for every latex without $ and newline, exporting
\* doc(blockMath{latex}) and importing the text gives a blockMath node with exactly
\* that latex.
C2_BlockRoundTrip ==
    \A l \in Latex :
        (Imported /\ doc = Doc(<<BlockMath(l)>>) /\ NoDollarNoNewline(l))
            => BlockMath(l) \in NodesOf(json)

\* C2 amended: the round trip holds for a latex that moreover is not blank, has no
\* white space at its ends, and holds no tilde fence, no backtick span and no
\* U+0000.
C2_BlockRoundTripAmended ==
    \A l \in Latex :
        ( /\ Imported
          /\ doc = Doc(<<BlockMath(l)>>)
          /\ NoDollarNoNewline(l)
          /\ l # <<>> /\ Trim(l) = l
          /\ NoCodeRegion(l) )
            => BlockMath(l) \in NodesOf(json)

\* a number, which the inline classifier would leave alone, came back as block math
C2_Witness ==
    /\ pc = "done"
    /\ doc = Doc(<<BlockMath(<<"5", ",", "&">>)>>)
    /\ markdown = <<"$", "$", "\n", "5", ",", "&", "\n", "$", "$">>
    /\ json = doc

(***************************************************************************)
(* C3  Currency is not converted.                                          *)
(***************************************************************************)
\* C3: for prose in which $ stands in front of amounts (one amount, or two joined
\* by and/or/to/per/each), the preprocessor emits no inline marker and returns the
\* text unchanged, and the tree holds the text and no inlineMath node.
C3_CurrencyStaysText ==
    markdown \in CurrencyTexts =>
        /\ Preprocessed => (~HasInlineMarker(result) /\ preprocessed = markdown)
        /\ (pc = "parsed") => json = Doc(<<Paragraph(<<Text(markdown)>>)>>)

\* "I have $5 and $50,000$." went through the import
C3_Witness ==
    /\ pc = "parsed"
    /\ markdown = <<"I", " ", "h", "a", "v", "e", " ", "$", "5", " ", "a", "n", "d", " ",
                    "$", "5", "0", ",", "0", "0", "0", "$", ".">>
    /\ preprocessed = markdown

(***************************************************************************)
(* C4  Code protection.                                                    *)
(***************************************************************************)
\* the start of the next maximal run of exactly n backticks at or after i, or 0
RECURSIVE NextRunOf(_, _, _)
NextRunOf(s, n, i) ==
    LET b == IndexOfFrom(s, <<Backtick>>, i)
    IN  IF b = 0 THEN 0
        ELSE IF RunLength(s, b) = n THEN b
        ELSE NextRunOf(s, n, b + RunLength(s, b))

\* a run of more than n backticks starts in i..j
LongerRunIn(s, n, i, j) ==
    \E k \in i .. j : s[k] = Backtick /\ RunLength(s, k) > n

\* the positions of s inside a code region, from i on: a tilde fence, or a span
\* opened by a run of backticks and closed by the next run of the same length,
\* with none but shorter runs in between
RECURSIVE CodeRegion(_, _)
CodeRegion(s, i) ==
    LET b == IndexOfFrom(s, <<Backtick>>, i)
        t == IndexOfFrom(s, Tildes, i)
    IN  IF t # 0 /\ (b = 0 \/ t < b)
        THEN LET e == IndexOfFrom(s, Tildes, t + 3)
             IN  IF e = 0 THEN CodeRegion(s, t + 3)
                 ELSE (t .. e + 2) \cup CodeRegion(s, e + 3)
        ELSE IF b = 0 THEN {}
        ELSE LET n == RunLength(s, b)
                 c == NextRunOf(s, n, b + n)
             IN  IF c = 0 THEN CodeRegion(s, b + n)
                 ELSE IF LongerRunIn(s, n, b + n, c - 1) THEN CodeRegion(s, c + n)
                 ELSE (b .. c + n - 1) \cup CodeRegion(s, c + n)

\* C4: when every $ of the input stands inside a code region (a tilde fence, or a
\* span between two runs of N backticks that holds none but shorter runs), the
\* preprocessor emits no math marker.
C4_CodeProtection ==
    (Preprocessed /\ \A i \in DOMAIN markdown : markdown[i] = "$" => i \in CodeRegion(markdown, 1))
        => (~HasInlineMarker(preprocessed) /\ ~HasBlockMarker(preprocessed))

(***************************************************************************)
(* C5  Verbatim restoration.                                               *)
(***************************************************************************)
\* C5: every protected literal that stood in the input reappears in the output of
\* the preprocessor, character for character.
C5_VerbatimRestore ==
    Preprocessed =>
        \A i \in DOMAIN placeholders :
            Contains(markdown, placeholders[i]) => Contains(preprocessed, placeholders[i])

(***************************************************************************)
(* C6  Sentinel uniqueness.                                                *)
(***************************************************************************)
\* C6: restoring replaces nothing but the sentinels the protection pass put in:
\* the text of a sentinel that stood in the input outside every protected region
\* is still there in the output.
C6_SentinelUniqueness ==
    Preprocessed =>
        \A k \in 0 .. Len(placeholders) - 1 :
            Contains(markdown, Sentinel(k)) => Contains(preprocessed, Sentinel(k))

(***************************************************************************)
(* C7  Serializer idempotence through the parser.                          *)
(***************************************************************************)
\* C7: exporting a tree of math and text nodes, importing the text and exporting
\* the imported tree gives the text of the first export.
C7_ExportIdempotent ==
    (pc = "done") => exported = markdown

(***************************************************************************)
(* C8  Classifier rule.                                                    *)
(***************************************************************************)
\* the inputs with one inline candidate: two $ that are not neighbours, no newline
\* between them, nothing a code region could start with
OneCandidate(md) ==
    LET a == IndexOfFrom(md, <<"$">>, 1)
        b == IndexOfFrom(md, <<"$">>, a + 1)
    IN  /\ a # 0 /\ b > a + 1
        /\ IndexOfFrom(md, <<"$">>, b + 1) = 0
        /\ \A i \in a .. b : md[i] # "\n"
        /\ NoCodeDelimiter(md)

\* C8: a candidate $...$ with trimmed interior s stays as it is when
\* isPureNumber(s), or startsWithNumber(s) and one of hasRangeOrCurrencyWords(s),
\* hasEnglishWordsAfterNumber(s), hasNonLatexToken(s); in every other case it is
\* replaced by an inline marker carrying s.
C8_ClassifierRule ==
    (Preprocessed /\ OneCandidate(markdown)) =>
        LET a == IndexOfFrom(markdown, <<"$">>, 1)
            b == IndexOfFrom(markdown, <<"$">>, a + 1)
            s == Trim(SubSeq(markdown, a + 1, b - 1))
        IN  preprocessed =
                SubSeq(markdown, 1, a - 1)
                \o (IF PlainTextRule(s) THEN SubSeq(markdown, a, b)
                    ELSE InlineMarker(EscapeHtmlAttr(s)))
                \o SubSeq(markdown, b + 1, Len(markdown))

\* "a $5+x$ b": starts with a number and yet is math
C8_Witness ==
    /\ Preprocessed
    /\ markdown = <<"a", " ", "$", "5", "+", "x", "$", " ", "b">>
    /\ preprocessed = <<"a", " ">> \o InlineMarker(<<"5", "+", "x">>) \o <<" ", "b">>

(***************************************************************************)
(* C9  Empty interior is never math.                                       *)
(***************************************************************************)
\* C9: a candidate whose interior is empty after trimming is left as plain text:
\* the preprocessor emits no inline marker with an empty latex.
C9_EmptyInterior ==
    Preprocessed => ~Contains(preprocessed, InlineMarker(<<>>))

(***************************************************************************)
(* C10  Unmatched delimiters are inert.                                    *)
(***************************************************************************)
\* C10: when the first $ of the input opens a $$ for which no closing $$ follows,
\* the $$ and the text after it stay literal: no marker comes out of them.
C10_UnmatchedInert ==
    LET a == IndexOfFrom(markdown, Dollars, 1)
    IN  ( /\ Preprocessed
          /\ a # 0
          /\ IndexOfFrom(markdown, <<"$">>, 1) = a
          /\ IndexOfFrom(markdown, Dollars, a + 2) = 0 )
            => (~HasInlineMarker(preprocessed) /\ ~HasBlockMarker(preprocessed))

(***************************************************************************)
(* C11  Equal-length backtick runs.                                        *)
(***************************************************************************)
\* the number of backticks s ends with
TrailingTicks(s) ==
    IF \A k \in DOMAIN s : s[k] = Backtick THEN Len(s)
    ELSE Len(s) - Max({k \in DOMAIN s : s[k] # Backtick})

\* a literal that is a span of the equal-length rule: it opens with a run of N
\* backticks, closes with a run of exactly N, and holds none but shorter runs
EqualLengthSpan(p) ==
    LET n == RunLength(p, 1)
    IN  /\ Len(p) > 2 * n
        /\ TrailingTicks(p) = n
        /\ ~LongerRunIn(p, n - 1, n + 1, Len(p) - n)

\* C11: every backtick literal the protection pass stores is a span whose opening
\* and closing runs have the same length, with none but shorter runs inside; no
\* part of a run without a closing run of its length is paired with itself or with
\* part of a longer run.
C11_EqualLengthRuns ==
    Preprocessed =>
        \A i \in DOMAIN placeholders :
            placeholders[i][1] = Backtick => EqualLengthSpan(placeholders[i])

(***************************************************************************)
(* C12  Empty serialization.                                               *)
(***************************************************************************)
\* jsonContentToMarkdown has returned
Serialized == pc = "serialized"

\* C12: the export of a root that is no doc, and of a doc whose content is absent
\* or empty, is the empty string.
C12_EmptySerialization ==
    (Serialized /\ (doc.type # "doc" \/ "content" \notin DOMAIN doc \/ doc.content = <<>>))
        => exported = <<>>

\* a root of an unknown type that holds a paragraph was exported as nothing
C12_Witness ==
    /\ Serialized
    /\ doc = Unknown(<<P(<<"a">>)>>)
    /\ exported = <<>>

(***************************************************************************)
(* C13  Table shape.                                                       *)
(***************************************************************************)
\* a separator line of n cells
SeparatorOf(n) == <<"|">> \o Concat([i \in 1 .. n |-> <<" ", "-", "-", "-", " ", "|">>])

\* a pipe-delimited line
PipeLine(l) ==
    /\ Len(l) >= 4
    /\ SubSeq(l, 1, 2) = <<"|", " ">>
    /\ SubSeq(l, Len(l) - 1, Len(l)) = <<" ", "|">>

\* C13: a table whose header has N cells is exported as the header line, one
\* separator line of exactly N --- cells, and one pipe-delimited line for every
\* other row, whatever the cells hold; no cell takes more than its line.
C13_TableShape ==
    (Serialized /\ doc \in Tables) =>
        LET rows == doc.content[2].content
            n == Len(rows[1].content)
            lines == SplitLines(exported)
        IN  /\ Len(lines) = 2 + Len(rows) + 1
            /\ lines[4] = SeparatorOf(n)
            /\ \A k \in 3 .. Len(lines) : k # 4 => (PipeLine(lines[k]) /\ lines[k] # SeparatorOf(n))

\* two columns; below the header a long text, a line break and two paragraphs
C13_Witness ==
    /\ Serialized
    /\ doc = Doc(<<P(<<"t">>), TableOf(2, 2, 4, 4)>>)
    /\ exported = <<"t", "\n", "\n", "|", " ", "a", " ", "|", " ", "a", "b", "c", "d", "e", "f", "g", "h", " ", "|", "\n", "|", " ", "-", "-", "-", " ", "|", " ", "-", "-", "-", " ", "|", "\n", "|", " ", "a", "b", "c", "d", "e", "f", "g", "h", " ", "|", " ", "x", " ", "y", " ", "|", "\n", "|", " ", "x", " ", "y", " ", "|", " ", "p", " ", "q", " ", "|">>

(***************************************************************************)
(* C14  List indentation.                                                  *)
(***************************************************************************)
\* the number of spaces a line starts with
LeadingSpaces(l) ==
    IF \A i \in DOMAIN l : l[i] = " " THEN Len(l)
    ELSE Min({i \in DOMAIN l : l[i] # " "}) - 1

\* the number a digit stands for
DigitValue(c) == CHOOSE n \in 0 .. 9 : DecimalDigits(n) = <<c>>

\* C14: in the export of lists inside lists, the line of an item at depth d starts
\* with exactly 2 * d spaces, two more than the line of the item it is nested in;
\* every item has its line.
C14_ListIndentation ==
    (Serialized /\ doc \in NestedLists) =>
        LET lines == SplitLines(exported)
        IN  /\ \E n \in 1 .. Len(lines) : Len(lines) = 2 * n - 1
            /\ lines[1][1] # " "
            /\ \A k \in DOMAIN lines :
                   LeadingSpaces(lines[k]) = 2 * DigitValue(lines[k][Len(lines[k])])
            /\ \A k \in 2 .. Len(lines) :
                   LeadingSpaces(lines[k]) <= LeadingSpaces(lines[k - 1]) + 2

\* three depths, bullet and ordered lists
C14_Witness ==
    /\ Serialized
    /\ doc = Doc(<<NestedList(<<"bulletList", "orderedList", "bulletList">>, 1)>>)
    /\ exported = <<"-", " ", "0", "\n", " ", " ", "3", ".", " ", "1", "\n", " ", " ", " ", " ", "-", " ", "2", "\n", " ", " ", "4", ".", " ", "1", "\n", "-", " ", "0">>

(***************************************************************************)
(* C15  Ordered list numbering.                                            *)
(***************************************************************************)
\* C15: the k-th item (k = 0, 1, ...) of an orderedList is exported with the number
\* attrs.start + k, start being 1 when the attribute is absent, whatever numbering
\* the text of the item holds.
C15_OrderedNumbering ==
    (Serialized /\ doc \in OrderedLists) =>
        LET list == doc.content[1]
            start == IF "start" \in DOMAIN list THEN list.start ELSE 1
            lines == SplitLines(exported)
        IN  /\ Len(lines) = Len(list.content)
            /\ \A k \in DOMAIN lines :
                   lines[k] = DecimalDigits(start + k - 1) \o <<".", " ">>
                              \o list.content[k].content[1].content[1].text

\* a list from 9 on, whose second item was typed as "7. b"
C15_Witness ==
    /\ Serialized
    /\ doc = Doc(<<OrderedList(9, <<ListItem(<<P(<<"a">>)>>), ListItem(<<P(<<"7", ".", " ", "b">>)>>)>>)>>)
    /\ exported = <<"9", ".", " ", "a", "\n", "1", "0", ".", " ", "7", ".", " ", "b">>

(***************************************************************************)
(* C16  Serialization never throws.                                        *)
(***************************************************************************)
\* the node types of the data model
KnownTypes ==
    { "doc", "paragraph", "heading", "text", "bulletList", "orderedList", "listItem",
      "blockquote", "codeBlock", "table", "tableRow", "tableHeader", "tableCell", "image",
      "horizontalRule", "inlineMath", "blockMath" }

RECURSIVE Repaired(_, _)
\* the tree without its nodes of unknown type, a heading without level given level l
Repaired(n, l) ==
    LET kept == SelectSeq(ContentOf(n), LAMBDA k : k.type \in KnownTypes)
        kids == [i \in DOMAIN kept |-> Repaired(kept[i], l)]
    IN  IF n.type = "heading" /\ "level" \notin DOMAIN n THEN Heading(l, kids)
        ELSE IF "content" \in DOMAIN n THEN [n EXCEPT !.content = kids]
        ELSE n

\* C16: a node of an unknown type adds nothing to the export and the nodes around
\* it are exported as if it were absent; a heading without level is exported as a
\* heading of some level: the export is that of the tree without the unknown
\* nodes and with a level in 1..6 for every heading that has none.
C16_UnknownNodesDropped ==
    (Serialized /\ doc \in MixedDocs) =>
        \E l \in 1 .. 6 : exported = JsonContentToMarkdownWith(Repaired(doc, l), config)

\* an unknown node between a paragraph and a heading without level
C16_Witness ==
    /\ Serialized
    /\ doc = Doc(<<P(<<"a">>), Unknown(<<P(<<"b">>)>>), HeadingNoLevel(<<Text(<<"h">>)>>)>>)
    /\ exported = <<"a", "\n", "\n", "#", " ", "h">>

(***************************************************************************)
(* C17  Image URL rewriting.                                               *)
(***************************************************************************)
\* what config.rewriteImageSrc makes of src, the identity without a rewriter
Rewritten(src) ==
    IF config = ExportConfig THEN MakeExportImageRewriter(src)
    ELSE IF config = LocalConfig THEN LocalRewriter(src)
    ELSE src

\* C17: every image{src, alt} is exported as ![alt](f(src)), f the rewriter of the
\* config or the identity; f is applied once to the src of every image, as a block
\* and inside a paragraph, and not to the href of a link or to a URL in a text.
C17_ImageRewriting ==
    (Serialized /\ doc \in ImageDocs) =>
        IF Len(doc.content) = 1
        THEN exported = <<"!", "[">> \o doc.content[1].alt \o <<"]", "(">>
                        \o Rewritten(doc.content[1].src) \o <<")">>
        ELSE LET link == doc.content[1].content[1]
                 img == doc.content[1].content[2]
                 txt == doc.content[1].content[3]
                 blk == doc.content[2]
             IN  exported = <<"[">> \o link.text \o <<"]", "(">> \o link.marks[1].href \o <<")">>
                            \o <<"!", "[">> \o img.alt \o <<"]", "(">> \o Rewritten(img.src) \o <<")">>
                            \o txt.text \o <<"\n", "\n">>
                            \o <<"!", "[">> \o blk.alt \o <<"]", "(">> \o Rewritten(blk.src) \o <<")">>

\* the rewriter of the test, on two images, next to a link and a text it leaves alone
C17_Witness ==
    /\ Serialized
    /\ config = LocalConfig
    /\ doc = Doc(<<Paragraph(<<LinkText(<<"t">>, <<"/", "i", "m", "a", "g", "e", "s", "/", "a", "b", "c", ".", "j", "p", "g">>),
                               Image(<<"/", "i", "m", "a", "g", "e", "s", "/", "a", "b", "c", ".", "j", "p", "g">>, <<>>),
                               Text(<<"/", "i", "m", "a", "g", "e", "/", "a", ".", "j", "p", "g">>)>>),
                   Image(<<"/", "i", "m", "a", "g", "e", "/", "a", ".", "j", "p", "g">>, <<>>)>>)
    /\ exported = <<"[", "t", "]", "(", "/", "i", "m", "a", "g", "e", "s", "/", "a", "b", "c", ".", "j", "p", "g", ")", "!", "[", "]", "(", ".", "/", "l", "o", "c", "a", "l", "/", "a", "b", "c", ".", "j", "p", "g", ")", "/", "i", "m", "a", "g", "e", "/", "a", ".", "j", "p", "g", "\n", "\n", "!", "[", "]", "(", "/", "i", "m", "a", "g", "e", "/", "a", ".", "j", "p", "g", ")">>

(***************************************************************************)
(* C18  Export image rewriter.                                             *)
(***************************************************************************)
\* the URL the rewriter is to return: ./images/<key> for /images/<key> and for
\* /images/<key>?<query>, the URL itself otherwise
ExportUrl(u) ==
    IF Len(u) >= 8 /\ SubSeq(u, 1, 8) = <<"/", "i", "m", "a", "g", "e", "s", "/">>
    THEN LET rest == SubSeq(u, 9, Len(u))
             Q == {i \in DOMAIN rest : rest[i] = "?"}
         IN  <<".", "/", "i", "m", "a", "g", "e", "s", "/">> \o (IF Q = {} THEN rest ELSE SubSeq(rest, 1, Min(Q) - 1))
    ELSE u

\* C18: makeExportImageRewriter() maps /images/<key>, with or without a ?query, to
\* ./images/<key> and returns every other URL unchanged: an image exported with it
\* carries that URL.
C18_ExportRewriter ==
    (Serialized /\ config = ExportConfig /\ doc \in ImageDocs /\ Len(doc.content) = 1)
        => exported = <<"!", "[">> \o doc.content[1].alt \o <<"]", "(">>
                      \o ExportUrl(doc.content[1].src) \o <<")">>

\* the URL of the test, with its query
C18_Witness ==
    /\ Serialized
    /\ config = ExportConfig
    /\ doc = Doc(<<Image(<<"/", "i", "m", "a", "g", "e", "s", "/", "a", "b", "c", "-", "1", "2", "3", ".", "j", "p", "g", "?", "q", "u", "a", "l", "i", "t", "y", "=", "8", "0">>, <<"p", "h", "o", "t", "o">>)>>)
    /\ exported = <<"!", "[", "p", "h", "o", "t", "o", "]", "(", ".", "/", "i", "m", "a", "g", "e", "s", "/", "a", "b", "c", "-", "1", "2", "3", ".", "j", "p", "g", ")">>

(***************************************************************************)
(* C19  Empty math nodes.                                                  *)
(***************************************************************************)
\* a math node whose latex is empty or white space
BlankMath(n) == n.type \in {"inlineMath", "blockMath"} /\ Trim(n.latex) = <<>>

RECURSIVE WithoutBlankMath(_)
\* the tree without its blank math nodes
WithoutBlankMath(n) ==
    IF "content" \notin DOMAIN n THEN n
    ELSE LET kept == SelectSeq(n.content, LAMBDA k : ~BlankMath(k))
         IN  [n EXCEPT !.content = [i \in DOMAIN kept |-> WithoutBlankMath(kept[i])]]

StageOrder ==
    /\ pc = "preprocess" => pc' = "render"
    /\ pc = "render" => pc' \in {"parse", "rejected"}
    /\ pc = "parse" => pc' \in {"parsed", "rejected"}
    /\ pc \in {"parsed", "rejected"} => UNCHANGED vars

\* every stage has worked on what the stage before it returned, and a tree is
\* there only when the last stage has returned
StageInputs ==
    /\ pc = "preprocess" => (preprocessed = <<>> /\ html = <<>>)
    /\ pc # "preprocess" => preprocessed = PreprocessMathInMarkdown(markdown).restored
    /\ pc = "render" => html = <<>>
    /\ pc \in {"parse", "parsed"} => html = Marked(preprocessed, 1)
    /\ pc = "parsed" => json = ParseHTML(html)
    /\ pc # "parsed" => json = NoDoc

\* C20: markdownToJsonContent runs preprocess, render and schema parse in this
\* order, each stage on the output of the one before; when render or parse throws
\* the call is rejected, no stage runs after it and no tree is returned.
C20_PipelineOrder == [](StageInputs) /\ [][StageOrder]_vars

\* the parse stage threw after the preprocessor had converted math and marked
\* had rendered it
C20_Witness ==
    /\ pc = "rejected"
    /\ HasInlineMarker(preprocessed)
    /\ html # <<>>
    /\ json = NoDoc

(***************************************************************************)
(* C22  Complete restore.                                                  *)
(***************************************************************************)
\* C22: the text preprocessMathInMarkdown returns holds none of the sentinel
\* tokens the call created, a tilde fence inside a backtick span included
\* (for markdown that holds no U+0000 of its own).
C22_CompleteRestore ==
    (Preprocessed /\ \A i \in DOMAIN markdown : markdown[i] # NUL) =>
        \A k \in 0 .. Len(placeholders) - 1 : ~Contains(preprocessed, Sentinel(k))

(***************************************************************************)
(* C23  Block markers are inert to the inline pass.                        *)
(***************************************************************************)
\* the text after the block pass, before the inline pass
AfterBlockPass(md) == ConvertBlockMath(ProtectCode(md).result, 1, <<>>)

\* the end of the marker opened at i: the last character of the next close
MarkerEnd(s, i, open, close) ==
    LET c == IndexOfFrom(s, close, i + Len(open))
    IN  IF c = 0 THEN Len(s) ELSE c + Len(close) - 1

\* the marker elements of s, as text
MarkersIn(s, open, close) ==
    {SubSeq(s, i, MarkerEnd(s, i, open, close)) :
        i \in {i \in DOMAIN s : StartsWithAt(s, i, open)}}

\* C23: every block-math marker the block pass emits is in the returned text,
\* unmodified (for markdown without code delimiters, where restoring changes
\* nothing).
C23_BlockMarkersInert ==
    (Preprocessed /\ NoCodeDelimiter(markdown)) =>
        \A m \in MarkersIn(AfterBlockPass(markdown), BlockOpen, BlockClose) :
            Contains(preprocessed, m)

(***************************************************************************)
(* C24  Safe attribute embedding.                                          *)
(***************************************************************************)
\* the data-latex values of the markers of s
LatexValues(s, open, close) ==
    {SubSeq(s, i + Len(open), MarkerEnd(s, i, open, close) - Len(close)) :
        i \in {i \in DOMAIN s : StartsWithAt(s, i, open)}}

\* no raw quote or angle bracket, and no ampersand but the start of one of
\* the four entities escapeHtmlAttr writes
SafeValue(v) ==
    \A k \in DOMAIN v :
        /\ v[k] \notin {"\"", "<", ">"}
        /\ v[k] = "&" => \E e \in 1..4 : StartsWithAt(v, k, Entities[e].ref)

\* C24: in the returned text the data-latex value of every marker holds no
\* raw double quote, < or >, and no & other than the start of an entity.
C24_SafeAttribute ==
    Preprocessed =>
        \A v \in LatexValues(preprocessed, InlineOpen, InlineClose)
                   \cup LatexValues(preprocessed, BlockOpen, BlockClose) :
            SafeValue(v)

(***************************************************************************)
(* Concurrent calls of markdownToJsonContent.  A call runs to its first    *)
(* await without yielding (preprocessMathInMarkdown is synchronous and its *)
(* placeholders array is a local of that invocation), then yields at       *)
(* await marked(...) and at the awaited imports before the parse.          *)
(***************************************************************************)
\* no single conversion running
ImportIdle ==
    /\ doc = NoDoc
    /\ config = NoConfig
    /\ markdown = <<>>
    /\ pc = "idle"
    /\ Fresh

NumCalls == 2

CallIds == 1..NumCalls

\* the arguments of the concurrent calls
ConcurrentTexts ==
    { <<"$", "x", "$">>, <<Backtick, "$", "x", "$", Backtick>>, <<"$", "$", "a", "$", "$", " ", "$", "x", "$">>, <<"~", "~", "~", "a", "~", "~", "~", " ", Backtick, "b", Backtick>>, <<"$", "5", " ", "a", "n", "d", " ", "$", "6">> }

\* the locals of a call that has not run yet
NewCall(md) ==
    [ markdown |-> md, placeholders |-> <<>>, preprocessed |-> <<>>, html |-> <<>>,
      json |-> NoDoc, pc |-> "preprocess" ]

InitConcurrent ==
    /\ ImportIdle
    /\ StoreIdle
    /\ WorkflowIdle
    /\ HookIdle
    /\ calls \in [CallIds -> {NewCall(md) : md \in ConcurrentTexts}]

\* the side table as one array of the module, shared by the calls: a call
\* pushes after the literals the other calls left there
CallPreprocessShared(c) ==
    /\ calls[c].pc = "preprocess"
    /\ LET r == PreprocessMathInMarkdown(calls[c].markdown)
           left == Concat([d \in CallIds |-> IF d = c THEN <<>> ELSE calls[d].placeholders])
       IN  calls' = [calls EXCEPT ![c].placeholders = left \o r.placeholders,
                                  ![c].preprocessed = r.restored,
                                  ![c].pc = "render"]
    /\ UNCHANGED notCallVars

\* call c is entered: const preprocessed = preprocessMathInMarkdown(markdown),
\* up to the first await
CallPreprocess(c) ==
    /\ calls[c].pc = "preprocess"
    /\ LET r == PreprocessMathInMarkdown(calls[c].markdown)
       IN  calls' = [calls EXCEPT ![c].placeholders = r.placeholders,
                                  ![c].preprocessed = r.restored,
                                  ![c].pc = "render"]
    /\ UNCHANGED notCallVars

\* call c resumes: const html = await marked(preprocessed)
CallRender(c) ==
    /\ calls[c].pc = "render"
    /\ calls' = [calls EXCEPT ![c].html = Marked(calls[c].preprocessed, 1),
                              ![c].pc = "parse"]
    /\ UNCHANGED notCallVars

\* call c resumes after the awaited imports: parse and return the tree
CallParse(c) ==
    /\ calls[c].pc = "parse"
    /\ calls' = [calls EXCEPT ![c].json = ParseHTML(calls[c].html),
                              ![c].pc = "parsed"]
    /\ UNCHANGED notCallVars

NextConcurrent ==
    \E c \in CallIds : CallPreprocess(c) \/ CallRender(c) \/ CallParse(c)

SpecConcurrent == InitConcurrent /\ [][NextConcurrent]_vars

(***************************************************************************)
(* C21  Call isolation.                                                    *)
(***************************************************************************)
\* what a call of markdownToJsonContent(md) holds when it runs alone
Alone(md) ==
    LET r == PreprocessMathInMarkdown(md)
        h == Marked(r.restored, 1)
    IN  [ placeholders |-> r.placeholders, preprocessed |-> r.restored, html |-> h,
          json |-> ParseHTML(h) ]

\* C21: however the steps of concurrent calls interleave, each call holds at
\* every stage the side table and the strings it holds when run alone, and
\* returns the tree it returns when run alone.
C21_CallIsolation ==
    \A c \in DOMAIN calls :
        LET a == Alone(calls[c].markdown)
        IN  /\ calls[c].pc \in {"render", "parse", "parsed"} =>
                /\ calls[c].placeholders = a.placeholders
                /\ calls[c].preprocessed = a.preprocessed
            /\ calls[c].pc \in {"parse", "parsed"} => calls[c].html = a.html
            /\ calls[c].pc = "parsed" => calls[c].json = a.json

\* a call has returned while another call, of another text with code regions
\* of its own, is between its awaits
C21_Witness ==
    /\ ImportIdle
    /\ \E c, d \in DOMAIN calls :
        /\ calls[c].pc = "parsed"
        /\ calls[d].pc = "parse"
        /\ calls[c].markdown # calls[d].markdown
        /\ calls[c].placeholders # <<>>
        /\ calls[d].placeholders # <<>>

(***************************************************************************)
(* The formula-modal store (formula-modal-store.ts): a Map from an         *)
(* editor's key to its opener, and the active key.  A Map keeps its        *)
(* entries in insertion order; setting a key it holds replaces the value   *)
(* in place.  An opener is the closure an editor creates on mount: it sets *)
(* the editor's own state and does not call the store.                     *)
(***************************************************************************)
NumKeys == 3

\* the symbols of the editors
Keys == 1..NumKeys

MaxFns == 3

MaxOpens == 2

\* openers.has(key)
Has(m, key) == \E i \in DOMAIN m : m[i].key = key

\* openers.get(key)
Get(m, key) == m[CHOOSE i \in DOMAIN m : m[i].key = key].fn

\* openers.set(key, fn)
MapSet(m, key, fn) ==
    IF Has(m, key)
    THEN [i \in DOMAIN m |-> IF m[i].key = key THEN [key |-> key, fn |-> fn] ELSE m[i]]
    ELSE Append(m, [key |-> key, fn |-> fn])

\* openers.delete(key)
MapDelete(m, key) ==
    LET Keep(e) == e.key # key
    IN  SelectSeq(m, Keep)

\* the last call of openFormulaModalForEdit stays as it was
NoOpen == UNCHANGED <<payload, invoked, propagated, opens>>

\* addFormulaModalOpener(key, fn), fn a closure created for this call
AddFormulaModalOpener(key) ==
    /\ nextFn <= MaxFns
    /\ openers' = MapSet(openers, key, nextFn)
    /\ nextFn' = nextFn + 1
    /\ NoOpen
    /\ UNCHANGED <<activeOpenerKey, strayed>>
    /\ UNCHANGED notStoreVars

\* removeFormulaModalOpener without the reset of the active key
RemoveFormulaModalOpenerKeepActive(key) ==
    /\ openers' = MapDelete(openers, key)
    /\ NoOpen
    /\ UNCHANGED <<activeOpenerKey, nextFn, strayed>>
    /\ UNCHANGED notStoreVars

\* removeFormulaModalOpener(key)
RemoveFormulaModalOpener(key) ==
    /\ openers' = MapDelete(openers, key)
    /\ activeOpenerKey' = IF activeOpenerKey = key THEN NoKey ELSE activeOpenerKey
    /\ NoOpen
    /\ UNCHANGED <<nextFn, strayed>>
    /\ UNCHANGED notStoreVars

\* setActiveFormulaModalOpenerKey(key); an editor calls it with its own key
\* while mounted, any other caller with any key
SetActiveFormulaModalOpenerKey(key) ==
    /\ activeOpenerKey' = key
    /\ strayed' = (strayed \/ ~Has(openers, key))
    /\ NoOpen
    /\ UNCHANGED <<openers, nextFn>>
    /\ UNCHANGED notStoreVars

\* one invocation of an opener, which returns or throws
Invocation(fn, throws) == [fn |-> fn, threw |-> throws]

\* openFormulaModalForEdit preferring the active key to payload.instanceKey
\* and the opener registered last as the fallback
OpenFormulaModalForEditActiveFirst(instanceKey, throws) ==
    /\ opens < MaxOpens
    /\ opens' = opens + 1
    /\ payload' = [instanceKey |-> instanceKey]
    /\ invoked' =
        IF Len(openers) = 0 THEN <<>>
        ELSE LET targetKey == IF activeOpenerKey # NoKey THEN activeOpenerKey
                              ELSE instanceKey
             IN  IF targetKey # NoKey /\ Has(openers, targetKey)
                 THEN <<Invocation(Get(openers, targetKey), throws)>>
                 ELSE <<Invocation(openers[Len(openers)].fn, throws)>>
    /\ propagated' = FALSE
    /\ UNCHANGED <<openers, activeOpenerKey, nextFn, strayed>>
    /\ UNCHANGED notStoreVars

\* openFormulaModalForEdit without its try/catch, dropping the active key
\* when the opener throws
OpenFormulaModalForEditNoCatch(instanceKey, throws) ==
    /\ opens < MaxOpens
    /\ opens' = opens + 1
    /\ payload' = [instanceKey |-> instanceKey]
    /\ invoked' =
        IF Len(openers) = 0 THEN <<>>
        ELSE LET targetKey == IF instanceKey # NoKey THEN instanceKey
                              ELSE activeOpenerKey
             IN  IF targetKey # NoKey /\ Has(openers, targetKey)
                 THEN <<Invocation(Get(openers, targetKey), throws)>>
                 ELSE <<Invocation(openers[1].fn, throws)>>
    /\ propagated' = (throws /\ Len(openers) # 0)
    /\ activeOpenerKey' = IF throws /\ Len(openers) # 0 THEN NoKey ELSE activeOpenerKey
    /\ UNCHANGED <<openers, nextFn, strayed>>
    /\ UNCHANGED notStoreVars

\* openFormulaModalForEdit(payload), the opener it invokes returning or throwing
OpenFormulaModalForEdit(instanceKey, throws) ==
    /\ opens < MaxOpens
    /\ opens' = opens + 1
    /\ payload' = [instanceKey |-> instanceKey]
    /\ invoked' =
        IF Len(openers) = 0 THEN <<>>
        ELSE LET targetKey == IF instanceKey # NoKey THEN instanceKey
                              ELSE activeOpenerKey
             IN  IF targetKey # NoKey /\ Has(openers, targetKey)
                 THEN <<Invocation(Get(openers, targetKey), throws)>>
                 ELSE <<Invocation(openers[1].fn, throws)>>
    /\ propagated' = FALSE
    /\ UNCHANGED <<openers, activeOpenerKey, nextFn, strayed>>
    /\ UNCHANGED notStoreVars

\* the onClick of a math node (editor/config.ts): instanceKey is the active
\* key, or undefined when there is none
MathOnClick ==
    \E throws \in BOOLEAN : OpenFormulaModalForEdit(activeOpenerKey, throws)

\* a call with a payload of the caller's choosing
OpenWithPayload ==
    \E instanceKey \in Keys \cup {NoKey}, throws \in BOOLEAN :
        OpenFormulaModalForEdit(instanceKey, throws)

InitStore ==
    /\ ImportIdle
    /\ calls = <<>>
    /\ StoreIdle
    /\ WorkflowIdle
    /\ HookIdle

NextStore ==
    \/ \E key \in Keys : AddFormulaModalOpener(key)
    \/ \E key \in Keys : RemoveFormulaModalOpener(key)
    \/ \E key \in Keys : SetActiveFormulaModalOpenerKey(key)
    \/ MathOnClick
    \/ OpenWithPayload

SpecStore == InitStore /\ [][NextStore]_vars

(***************************************************************************)
(* C25  Formula-modal dispatch.                                            *)
(***************************************************************************)
\* the key a call aims at: payload.instanceKey if given, else the active key
TargetKey(instanceKey) == IF instanceKey # NoKey THEN instanceKey ELSE activeOpenerKey

\* C25: openFormulaModalForEdit invokes no opener when the registry is empty,
\* and otherwise exactly one opener once: the one registered under the
\* target key when that key is registered, else the first of the registry;
\* never an opener that is not registered.
C25_Dispatch ==
    [][opens' # opens =>
        LET target == TargetKey(payload'.instanceKey)
        IN  /\ openers = <<>> => invoked' = <<>>
            /\ openers # <<>> => Len(invoked') = 1
            /\ \A n \in DOMAIN invoked' :
                /\ \E i \in DOMAIN openers : openers[i].fn = invoked'[n].fn
                /\ Has(openers, target) => invoked'[n].fn = Get(openers, target)
                /\ ~Has(openers, target) => invoked'[n].fn = openers[1].fn]_vars

\* a call whose instanceKey is not registered, while another key is active
\* and registered, and the first opener of the registry, not the active
\* one, was invoked
C25_Witness ==
    /\ opens > 0
    /\ ~Has(openers, payload.instanceKey)
    /\ payload.instanceKey # NoKey
    /\ Has(openers, activeOpenerKey)
    /\ Len(openers) > 1
    /\ Len(invoked) = 1
    /\ invoked[1].fn = openers[1].fn
    /\ invoked[1].fn # Get(openers, activeOpenerKey)

(***************************************************************************)
(* C26  Active-key invariant.                                              *)
(***************************************************************************)
\* C26: while setActive was only ever called with a key registered at that
\* moment, the active key is null or a registered key; removing the active
\* key resets it to null and removing another key leaves it unchanged.
C26_ActiveKey ==
    /\ [](~strayed => (activeOpenerKey = NoKey \/ Has(openers, activeOpenerKey)))
    /\ [][\A key \in Keys :
            (Has(openers, key) /\ ~Has(openers', key)) =>
                activeOpenerKey' = IF activeOpenerKey = key THEN NoKey
                                   ELSE activeOpenerKey]_vars

\* setActive was only called with registered keys, an opener was removed, and
\* the active key is the key of the second of two registered openers
C26_Witness ==
    /\ ~strayed
    /\ Len(openers) = 2
    /\ nextFn > 3
    /\ activeOpenerKey = openers[2].key

(***************************************************************************)
(* C27  openFormulaModalForEdit is read-only and never throws.             *)
(***************************************************************************)
\* C27: a call of openFormulaModalForEdit leaves the registry and the active
\* key unchanged and returns normally, also when the opener it invoked
\* threw; it invokes no second opener.
C27_ReadOnly ==
    [][opens' # opens =>
        /\ openers' = openers
        /\ activeOpenerKey' = activeOpenerKey
        /\ propagated' = FALSE
        /\ Len(invoked') <= 1]_vars

\* the fallback opener threw, with a second opener registered
C27_Witness ==
    /\ opens > 0
    /\ Len(openers) > 1
    /\ ~Has(openers, TargetKey(payload.instanceKey))
    /\ Len(invoked) = 1
    /\ invoked[1].threw
    /\ ~propagated

(***************************************************************************)
(* ScheduledPublishWorkflow.run (scheduled-publish.ts).  Time is counted   *)
(* in ticks, TicksPerDay to a UTC day.  step.sleepUntil completes once the *)
(* time has reached its timestamp; a step.do completes with the result of  *)
(* its callback or, its retries used up, throws out of run.  The post in   *)
(* the database changes under the run.                                     *)
(***************************************************************************)
\* UTC midnight and UTC noon
TicksPerDay == 2

MaxNow == 5

Times == 0..MaxNow

\* what fetchPost finds: no post, or a post with its status
Statuses == {"missing", "draft", "published"}

\* toUTCMidnight(date)
ToUTCMidnight(date) == date - (date % TicksPerDay)

\* a completed step
Step(name) == [name |-> name, at |-> now]

InitWorkflow ==
    /\ ImportIdle
    /\ calls = <<>>
    /\ StoreIdle
    /\ HookIdle
    /\ now \in Times
    /\ publishedAt \in Times
    /\ stored \in Statuses
    /\ post = "none"
    /\ steps = <<>>
    /\ stage = "sleep"

\* time passes
Tick ==
    /\ now < MaxNow
    /\ now' = now + 1
    /\ UNCHANGED <<publishedAt, stored, post, steps, stage>>
    /\ UNCHANGED notWorkflowVars

\* the post is published, unpublished or deleted by someone
ChangePost(status) ==
    /\ status # stored
    /\ stored' = status
    /\ UNCHANGED <<now, publishedAt, post, steps, stage>>
    /\ UNCHANGED notWorkflowVars

\* await step.sleepUntil("sleep until publish date", toUTCMidnight(...))
SleepUntil ==
    /\ stage = "sleep"
    /\ now >= ToUTCMidnight(publishedAt)
    /\ steps' = Append(steps, Step("sleep until publish date"))
    /\ stage' = "verify"
    /\ UNCHANGED <<now, publishedAt, stored, post>>
    /\ UNCHANGED notWorkflowVars

\* the verify step without the test of the post that follows it
VerifyPostStatusUnchecked ==
    /\ stage = "verify"
    /\ post' = stored
    /\ steps' = Append(steps, Step("verify post status"))
    /\ stage' = "invalidate"
    /\ UNCHANGED <<now, publishedAt, stored>>
    /\ UNCHANGED notWorkflowVars

\* const post = await step.do("verify post status", ...);
\* if (!post || post.status !== "published") return
VerifyPostStatus ==
    /\ stage = "verify"
    /\ post' = stored
    /\ steps' = Append(steps, Step("verify post status"))
    /\ stage' = IF stored = "published" THEN "invalidate" ELSE "ended"
    /\ UNCHANGED <<now, publishedAt, stored>>
    /\ UNCHANGED notWorkflowVars

\* await step.do("invalidate caches", ...)
InvalidateCaches ==
    /\ stage = "invalidate"
    /\ steps' = Append(steps, Step("invalidate caches"))
    /\ stage' = "index"
    /\ UNCHANGED <<now, publishedAt, stored, post>>
    /\ UNCHANGED notWorkflowVars

\* await step.do("update search index", ...), the last statement of run
UpdateSearchIndex ==
    /\ stage = "index"
    /\ steps' = Append(steps, Step("update search index"))
    /\ stage' = "ended"
    /\ UNCHANGED <<now, publishedAt, stored, post>>
    /\ UNCHANGED notWorkflowVars

\* the callback of a step.do keeps throwing: the step throws out of run
StepThrows ==
    /\ stage \in {"verify", "invalidate", "index"}
    /\ stage' = "failed"
    /\ UNCHANGED <<now, publishedAt, stored, post, steps>>
    /\ UNCHANGED notWorkflowVars

NextWorkflow ==
    \/ Tick
    \/ \E status \in Statuses : ChangePost(status)
    \/ SleepUntil
    \/ VerifyPostStatus
    \/ InvalidateCaches
    \/ UpdateSearchIndex
    \/ StepThrows

SpecWorkflow == InitWorkflow /\ [][NextWorkflow]_vars

(***************************************************************************)
(* C28  Scheduled publish ordering.                                        *)
(***************************************************************************)
\* the places of the step called name among the completed steps
Ran(name) == {i \in DOMAIN steps : steps[i].name = name}

\* midnight of the UTC day publishedAt lies in
PublishDay ==
    CHOOSE m \in 0..publishedAt : m % TicksPerDay = 0 /\ publishedAt - m < TicksPerDay

\* C28: the post is fetched only after the sleep until UTC midnight of the
\* publish date has completed; 'invalidate caches' and 'update search index'
\* run only if the post fetched then exists and is published, the first
\* completing before the second; otherwise neither runs and the run ends.
C28_PublishOrdering ==
    /\ \A i \in Ran("verify post status") :
        \E j \in Ran("sleep until publish date") :
            j < i /\ steps[j].at >= PublishDay /\ steps[i].at >= steps[j].at
    /\ post # "none" <=> Ran("verify post status") # {}
    /\ \A i \in Ran("invalidate caches") \cup Ran("update search index") :
        /\ post = "published"
        /\ \E j \in Ran("verify post status") : j < i
    /\ \A i \in Ran("update search index") :
        \E j \in Ran("invalidate caches") : j < i
    /\ post \in {"missing", "draft"} =>
        /\ stage = "ended"
        /\ Ran("invalidate caches") \cup Ran("update search index") = {}

\* a run that woke at midnight, before the publish time of that day, found
\* the post published and ran both steps, the post unpublished since
C28_Witness ==
    /\ stage = "ended"
    /\ Len(steps) = 4
    /\ steps[1].at < publishedAt
    /\ steps[4].name = "update search index"
    /\ stored # "published"

(***************************************************************************)
(* The usePostActions hook (use-post-actions.tsx): the publish-process     *)
(* cycle of handleProcessData and the slug that follows the debounced      *)
(* title.  An event handler, a timeout callback and an effect each run to  *)
(* completion; a handler sees the state of the latest render.  A timeout   *)
(* that was set fires, after its delay.                                    *)
(***************************************************************************)
MaxHandled == 3

MaxEdits == 3

\* the titles the user types; the first is blank
Titles == { <<" ">>, <<"a">>, <<"b">> }

\* a slug as the server generated it for a title
Generated(t) == [from |-> "request", title |-> t]

\* slugify(post.title) || "untitled-log", the slug of onError
Fallback(t) == [from |-> "fallback", title |-> t]

\* the post as a render sees it
Post == [title |-> title, slug |-> slug]

\* a pending timeout with the post its callback closed over
Timeout(name) == [name |-> name, post |-> Post]

\* the sequence s without its element i
Without(s, i) == SubSeq(s, 1, i - 1) \o SubSeq(s, i + 1, Len(s))

InitHook ==
    /\ ImportIdle
    /\ calls = <<>>
    /\ StoreIdle
    /\ WorkflowIdle
    /\ processState = "IDLE"
    /\ timers = <<>>
    /\ mutations = 0
    /\ cycles = 0
    /\ handled = 0
    /\ title \in Titles
    /\ debouncedTitle = title
    /\ prevTitleRef = title
    /\ isPending = FALSE
    /\ requested = <<>>
    /\ slug = [from |-> "initial", title |-> <<>>]
    /\ edits = 0
    /\ isFirstTitleMount = TRUE
    /\ sessionSynced = FALSE
    /\ kvSnapshot = [title |-> title, slug |-> slug]

\* the state of the publish-process cycle stays as it is
ProcessUnchanged ==
    UNCHANGED <<processState, timers, mutations, cycles, handled, sessionSynced,
                kvSnapshot>>

\* the state of the slug generation stays as it is
SlugUnchanged ==
    UNCHANGED <<title, debouncedTitle, prevTitleRef, isPending, requested, slug, edits,
                isFirstTitleMount>>

\* the slug effect on the first mount: it only notes the title
MountEffect ==
    /\ isFirstTitleMount
    /\ isFirstTitleMount' = FALSE
    /\ prevTitleRef' = debouncedTitle
    /\ UNCHANGED <<title, debouncedTitle, isPending, requested, slug, edits>>
    /\ ProcessUnchanged
    /\ UNCHANGED notHookVars

\* handleProcessData without its test of processState
HandleProcessDataUnguarded ==
    /\ ~isFirstTitleMount
    /\ handled < MaxHandled
    /\ handled' = handled + 1
    /\ processState' = "PROCESSING"
    /\ cycles' = IF processState = "IDLE" THEN cycles + 1 ELSE cycles
    /\ timers' = Append(timers, Timeout("start"))
    /\ UNCHANGED <<mutations, sessionSynced, kvSnapshot>>
    /\ SlugUnchanged
    /\ UNCHANGED notHookVars

\* handleProcessData()
HandleProcessData ==
    /\ ~isFirstTitleMount
    /\ handled < MaxHandled
    /\ handled' = handled + 1
    /\ IF processState # "IDLE"
       THEN UNCHANGED <<processState, cycles, timers>>
       ELSE /\ processState' = "PROCESSING"
            /\ cycles' = cycles + 1
            /\ timers' = Append(timers, Timeout("start"))
    /\ UNCHANGED <<mutations, sessionSynced, kvSnapshot>>
    /\ SlugUnchanged
    /\ UNCHANGED notHookVars

\* the callback of the 800 ms timeout: mutate, SUCCESS, the snapshot, and the
\* 3000 ms timeout
StartTimeout ==
    /\ \E i \in DOMAIN timers :
        /\ timers[i].name = "start"
        /\ mutations' = mutations + 1
        /\ processState' = "SUCCESS"
        /\ sessionSynced' = TRUE
        /\ kvSnapshot' = timers[i].post
        /\ timers' = Append(Without(timers, i), Timeout("reset"))
    /\ UNCHANGED <<cycles, handled>>
    /\ SlugUnchanged
    /\ UNCHANGED notHookVars

\* the callback of the 3000 ms timeout
ResetTimeout ==
    /\ \E i \in DOMAIN timers :
        /\ timers[i].name = "reset"
        /\ processState' = "IDLE"
        /\ timers' = Without(timers, i)
    /\ UNCHANGED <<mutations, cycles, handled, sessionSynced, kvSnapshot>>
    /\ SlugUnchanged
    /\ UNCHANGED notHookVars

\* the user edits the title
EditTitle(t) ==
    /\ ~isFirstTitleMount
    /\ edits < MaxEdits
    /\ t # title
    /\ title' = t
    /\ edits' = edits + 1
    /\ UNCHANGED <<debouncedTitle, prevTitleRef, isPending, requested, slug,
                   isFirstTitleMount>>
    /\ ProcessUnchanged
    /\ UNCHANGED notHookVars

\* the debounced title catches up with the title, and the slug effect runs
\* in the render that sees it
DebouncedTitleEffect ==
    /\ ~isFirstTitleMount
    /\ debouncedTitle # title
    /\ debouncedTitle' = title
    /\ IF title = prevTitleRef
       THEN UNCHANGED <<prevTitleRef, isPending, requested>>
       ELSE /\ prevTitleRef' = title
            /\ IF Trim(title) = <<>> \/ isPending
               THEN UNCHANGED <<isPending, requested>>
               ELSE /\ isPending' = TRUE
                    /\ requested' = Append(requested, title)
    /\ UNCHANGED <<title, slug, edits, isFirstTitleMount>>
    /\ ProcessUnchanged
    /\ UNCHANGED notHookVars

\* the slug request succeeds: onSuccess
SlugSuccess ==
    /\ isPending
    /\ isPending' = FALSE
    /\ slug' = Generated(requested[Len(requested)])
    /\ UNCHANGED <<title, debouncedTitle, prevTitleRef, requested, edits,
                   isFirstTitleMount>>
    /\ ProcessUnchanged
    /\ UNCHANGED notHookVars

\* the slug request fails: onError
SlugError ==
    /\ isPending
    /\ isPending' = FALSE
    /\ slug' = Fallback(title)
    /\ UNCHANGED <<title, debouncedTitle, prevTitleRef, requested, edits,
                   isFirstTitleMount>>
    /\ ProcessUnchanged
    /\ UNCHANGED notHookVars

NextHook ==
    \/ MountEffect
    \/ HandleProcessData
    \/ StartTimeout
    \/ ResetTimeout
    \/ \E t \in Titles : EditTitle(t)
    \/ DebouncedTitleEffect
    \/ SlugSuccess
    \/ SlugError

SpecHook == InitHook /\ [][NextHook]_vars

\* a timeout that was set fires
SpecHookFair ==
    /\ InitHook
    /\ [][NextHook]_vars
    /\ WF_vars(StartTimeout)
    /\ WF_vars(ResetTimeout)

(***************************************************************************)
(* C29  The publish-process cycle.                                         *)
(***************************************************************************)
\* the moves of processState the claim allows
CycleMove ==
    \/ processState = "IDLE" /\ processState' = "PROCESSING"
    \/ processState = "PROCESSING" /\ processState' = "SUCCESS"
    \/ processState = "SUCCESS" /\ processState' = "IDLE"

\* C29: processState only moves IDLE -> PROCESSING -> SUCCESS -> IDLE; a call
\* of handleProcessData outside IDLE changes nothing; a cycle issues at most
\* one mutation, and only while PROCESSING; a started cycle returns to IDLE.
C29_ProcessCycle ==
    /\ [][processState' # processState => CycleMove]_vars
    /\ [][(handled' # handled /\ processState # "IDLE") =>
            UNCHANGED <<processState, timers, mutations, cycles, sessionSynced,
                        kvSnapshot>>]_vars
    /\ [][mutations' # mutations =>
            (processState = "PROCESSING" /\ mutations' = mutations + 1)]_vars
    /\ [](mutations = IF processState = "PROCESSING" THEN cycles - 1 ELSE cycles)
    /\ (processState = "PROCESSING") ~> (processState = "IDLE")

\* two cycles ran to their end with one mutation each, and one call of
\* handleProcessData came outside IDLE
C29_Witness ==
    /\ processState = "IDLE"
    /\ cycles = 2
    /\ mutations = 2
    /\ handled = 3
    /\ timers = <<>>

(***************************************************************************)
(* C30  The slug follows the title.                                        *)
(***************************************************************************)
\* the title edits are through the debounce and no slug request is pending
Settled ==
    /\ ~isFirstTitleMount
    /\ debouncedTitle = title
    /\ ~isPending

\* C30: once the title edits have stopped and the requests have settled, a
\* slug that a request set comes from a request for the latest debounced
\* title, when that title is not blank: a request was issued for every
\* non-blank title the debounce delivered, a pending request or not.
C30_SlugFollowsTitle ==
    (Settled /\ Trim(debouncedTitle) # <<>> /\ slug.from = "request") =>
        slug.title = debouncedTitle

====
